---- MODULE Spec2Model ----
(***************************************************************************)
(* A model of the Fly.io one-click deployer backend.                       *)
(*                                                                         *)
(*   SpecDeploy     one run of deployApp (controllers/deployController.js) *)
(*   SpecInstaller  getFlyExe / performAntifragileInstallation             *)
(*                  (lib/installer.js) with concurrent callers             *)
(*   SpecNormalize  the manifest post-processing of analyzeRepo            *)
(*                  (controllers/healthController.js)                      *)
(*                                                                         *)
(* Text is modelled as a sequence of words (an event message) or of        *)
(* lexical tokens (a manifest); a path is a sequence of path segments.     *)
(***************************************************************************)
EXTENDS Integers, Sequences, FiniteSets, TLC

VARIABLES
    \* ---- deployApp ----
    pc,           \* position of the deployApp handler
    req,          \* req.body of the deploy request
    env,          \* process.env of the server (FLY_API_TOKEN, OPENAI_API_KEY)
    events,       \* the events written to the response with res.write, in order
    resEnded,     \* res.end() has been called
    workDirState, \* what is on disk at workDir
    targetDir,    \* "workDir" or "subdir": the directory deployApp builds in
    calls,        \* subprocess and fetch invocations of the run, in order; a
                  \* provisioning call whose failure was caught is followed by Failed
    thrown,       \* the message of the Error travelling to the catch block
    procOut,      \* output of the running deploy subprocess so far (stderr+stdout)
    outLines,     \* number of output lines the deploy subprocess has written
    status,       \* parsed output of `status --json`
    probes,       \* health probes issued (the loop counter i)
    healthy,      \* the health loop's flag
    createResult, \* what `apps create` answered: <<"created">>, or its error output
    flyTomlFile,  \* the content of fly.toml in the source tree (targetDir), or NoFile
    auxPaths,     \* the paths the auxiliary files of the request were written to
    \* ---- installer ----
    flyBinPath,          \* module variable: cached verified path, or NoPath
    installationPromise, \* module variable: id of the in-flight attempt, or 0
    lastInstallError,    \* module variable
    disk,                \* the paths for which existsSync is true
    runnable,            \* the commands whose `version` run prints the marker
    attempt,             \* per attempt id: state of performAntifragileInstallation
    caller,              \* per caller: state of its getFlyExe call
    nAttempts,           \* attempts started so far
    config,              \* lib/config.js: IS_VERCEL, IS_WINDOWS
    \* ---- manifest normalization ----
    manifest,     \* result.fly_toml
    manifestIn,   \* the manifest the strategy returned
    normName,     \* appName of the analyze request
    passes,       \* number of times the post-processing was applied
    \* ---- analyzeRepo ----
    anPc,         \* control point of analyzeRepo
    anReq,        \* req.body of the analyze request
    anRepo,       \* the repository: answer to the archive request, its tree
    anDir,        \* workDir of the analysis: NoDir, or its set of entries
    anCalls,      \* fetches and provider calls made, in order
    anErr,        \* the message of the Error downloadRepo threw ("" for none)
    anResult,     \* what strategy.analyze returned
    anResponse,   \* the response sent: status code and body
    \* ---- two concurrent deploy runs ----
    runPc,        \* per run: control point
    runSid,       \* per run: req.body.sessionId
    wsDirs,       \* the directories that exist on disk
    \* ---- the client of the deploy stream (store/deployStore) ----
    clPc,         \* control point of useDeployStore.deployApp
    clStream,     \* the events the server writes to the response, in order
    clRest,       \* the part of the response body not yet delivered by reader.read()
    clTorn,       \* some chunk delivered so far ended inside an event
    logs,         \* store state: logs
    currentStep,  \* store state: currentStep
    deployedUrl,  \* store state: deployedUrl ("null" when unset)
    error,        \* store state: error ("null" when unset)
    \* ---- PolicyEngine.apply (lib/policy.js) ----
    polPc,        \* control point of apply: the index of the entry at hand, then the healer
    polFiles,     \* the files of targetDir: name -> content
    polFiles0,    \* the files of targetDir when apply was called
    polEvents,    \* the events apply has streamed
    \* ---- forwarding of the deploy subprocess's output ----
    outText,      \* the lines the subprocess writes to its stdout
    outRest,      \* the part of that text not yet delivered in a 'data' event
    outEvents     \* the events streamed for the output

dvars == <<auxPaths, pc, req, env, events, resEnded, workDirState, targetDir, calls,
           thrown, procOut, outLines, status, probes, healthy, createResult,
           flyTomlFile>>
ivars == <<flyBinPath, installationPromise, lastInstallError, disk, runnable,
           attempt, caller, nAttempts, config>>
nvars == <<manifest, manifestIn, normName, passes>>
avars == <<anPc, anReq, anRepo, anDir, anCalls, anErr, anResult, anResponse>>
tvars == <<runPc, runSid, wsDirs>>
pvars == <<polPc, polFiles, polFiles0, polEvents>>
lvars == <<outText, outRest, outEvents>>
cvars == <<clPc, clStream, clRest, clTorn, logs, currentStep, deployedUrl, error>>
vars == <<dvars, ivars, nvars, avars, tvars, cvars, pvars, lvars>>

(***************************************************************************)
(* Bounds of the model.                                                    *)
(***************************************************************************)
MaxOutLines == 1
MaxCallers == 2
MaxAttempts == 2
MaxManifestLen == 5
MaxStreamLen == 2


(***************************************************************************)
(* Generic helpers.                                                        *)
(***************************************************************************)
Range(s) == {s[i] : i \in 1..Len(s)}

RECURSIVE Flatten(_)
Flatten(ss) == IF ss = <<>> THEN <<>> ELSE Head(ss) \o Flatten(Tail(ss))

\* String.prototype.replace(new RegExp(tok, 'g'), by), on a text of words.
ReplaceAll(msg, tok, by) == [i \in 1..Len(msg) |-> IF msg[i] = tok THEN by ELSE msg[i]]

\* A text contains the value verbatim.
Contains(msg, v) == v \in Range(msg)

(***************************************************************************)
(* Paths (lib/config.js, path.join).                                       *)
(***************************************************************************)
TEMP_DIR == <<"base", "fly_deployer_workspaces">>

\* The value of a request field that is absent from req.body.
Undefined == <<"<undefined>">>

RECURSIVE PathJoin(_, _)
PathJoin(base, segs) ==
    IF segs = <<>> THEN base
    ELSE IF Head(segs) = ".."
         THEN PathJoin(IF base = <<>> THEN <<>> ELSE SubSeq(base, 1, Len(base) - 1), Tail(segs))
         ELSE IF Head(segs) \in {".", ""}
              THEN PathJoin(base, Tail(segs))
              ELSE PathJoin(Append(base, Head(segs)), Tail(segs))

\* dir.startsWith(prefix), on whole path segments.
StartsWith(dir, prefix) ==
    /\ Len(dir) >= Len(prefix)
    /\ SubSeq(dir, 1, Len(prefix)) = prefix

WorkDir == PathJoin(TEMP_DIR, req.sessionId)

(***************************************************************************)
(* Request validation (deployController.js 11-12).                         *)
(***************************************************************************)
LowerDigitHyphen == {"a", "p", "1", "-"}

\* The pieces of text of a path segment of a URL: characters, and the word
\* the proxy preset looks for.
UrlChars == LowerDigitHyphen \cup {"A", "sniproxy"}

\* The characters of the application names of the model.
Chars(name) ==
    CASE name = "app-1" -> <<"a", "p", "p", "-", "1">>
      [] name = "App_1" -> <<"A", "p", "p", "_", "1">>
      [] name = "" -> <<>>
      [] OTHER -> <<"_">>

\* No validation of the app name.
AnyAppName(name) == TRUE

isValidAppName(name) ==
    /\ Len(Chars(name)) >= 1
    /\ \A i \in 1..Len(Chars(name)) : Chars(name)[i] \in LowerDigitHyphen

\* A URL is [scheme, host, path]; path segments are sequences of characters.
isValidRepoUrl(url) ==
    /\ url.scheme \in {"http", "https"}
    /\ url.host \in {"github.com", "www.github.com"}
    /\ Len(url.path) = 2
    /\ Len(url.path[1]) >= 1
    /\ \A i \in 1..Len(url.path[1]) : url.path[1][i] \in UrlChars
    /\ Len(url.path[2]) >= 1
    /\ \A i \in 1..Len(url.path[2]) : url.path[2][i] \in UrlChars \cup {".", "_"}

(***************************************************************************)
(* Events (deployController.js 14-19, 38-41).                              *)
(***************************************************************************)
REDACTED == "[REDACTED_TOKEN]"

sanitizeLog(msg) ==
    IF env.FLY_API_TOKEN = "" /\ env.OPENAI_API_KEY = "" THEN msg
    ELSE IF env.FLY_API_TOKEN # ""
         THEN ReplaceAll(msg, env.FLY_API_TOKEN, REDACTED)
         ELSE msg

\* One `data: {...}` record of the stream.
Event(type, msg) == [type |-> type, message |-> msg, appUrl |-> "", appName |-> ""]

\* stream(msg, type) appended to the events evs.
stream(evs, msg, type) == Append(evs, Event(type, sanitizeLog(msg)))

\* error.message of a failed execa call: the short message with the command
\* line, followed by the captured stderr and stdout.
ExecaMessage(cmdline, out) == <<"Command failed with exit code 1:">> \o cmdline \o out

(***************************************************************************)
(* Manifest text: the regular expressions of the two normalizations        *)
(* (healthController.js 64-77, deployController.js 93-99) on token         *)
(* sequences.                                                              *)
(***************************************************************************)
\* \s
WS == {"SP", "NL"}

\* \s* from position i: the first position that is not whitespace.
RECURSIVE SkipWs(_, _)
SkipWs(m, i) ==
    IF i <= Len(m) /\ m[i] \in WS THEN SkipWs(m, i + 1) ELSE i

\* .*$ from position i: the position of the line's end.
RECURSIVE LineEnd(_, _)
LineEnd(m, i) ==
    IF i <= Len(m) /\ m[i] # "NL" THEN LineEnd(m, i + 1) ELSE i

\* /^app\s*=/m matches at position i.
AppLineAt(m, i) ==
    /\ i = 1 \/ m[i - 1] = "NL"
    /\ m[i] = "app"
    /\ LET k == SkipWs(m, i + 1) IN k <= Len(m) /\ m[k] = "="

\* The position of the first match of /^app\s*=/m, 0 when there is none.
FirstAppLine(m) ==
    LET hits == {i \in 1..Len(m) : AppLineAt(m, i)}
    IN  IF hits = {} THEN 0 ELSE CHOOSE i \in hits : \A j \in hits : i <= j

\* `app = '${appName}'`
AppLine(name) == <<"app", "SP", "=", "SP", "'", name, "'">>

\* The app line put in front whether or not the manifest has one.
PrependAppName(m, name) == AppLine(name) \o <<"NL">> \o m

\* Lines 66-70: the first app line is replaced, or one is put in front.
ForceAppName(m, name) ==
    LET i == FirstAppLine(m)
    IN  IF i # 0
        THEN LET e == LineEnd(m, SkipWs(m, i + 1) + 1)
             IN  SubSeq(m, 1, i - 1) \o AppLine(name) \o SubSeq(m, e, Len(m))
        ELSE AppLine(name) \o <<"NL">> \o m

\* /key\s*=\s*old/ matches at position i: the position of its last token,
\* 0 when it does not match.
MatchEnd(m, i, key, old) ==
    IF m[i] # key THEN 0
    ELSE LET k == SkipWs(m, i + 1)
         IN  IF k > Len(m) \/ m[k] # "=" THEN 0
             ELSE LET v == SkipWs(m, k + 1)
                  IN  IF v <= Len(m) /\ m[v] = old THEN v ELSE 0

\* replace(/key\s*=\s*old/g, "key = new") from position i on.
RECURSIVE Rewrite(_, _, _, _, _)
Rewrite(m, i, key, old, new) ==
    IF i > Len(m) THEN <<>>
    ELSE LET e == MatchEnd(m, i, key, old)
         IN  IF e # 0
             THEN <<key, "SP", "=", "SP", new>> \o Rewrite(m, e + 1, key, old, new)
             ELSE <<m[i]>> \o Rewrite(m, i + 1, key, old, new)

\* /^key\s*=/m matches at position i.
KeyLineAt(m, i, key) ==
    /\ i = 1 \/ m[i - 1] = "NL"
    /\ m[i] = key
    /\ LET k == SkipWs(m, i + 1) IN k <= Len(m) /\ m[k] = "="

\* replace(/^key\s*=.*$/gm, '') from position i on.
RECURSIVE StripLines(_, _, _)
StripLines(m, i, key) ==
    IF i > Len(m) THEN <<>>
    ELSE IF KeyLineAt(m, i, key)
         THEN StripLines(m, LineEnd(m, SkipWs(m, i + 1) + 1), key)
         ELSE <<m[i]>> \o StripLines(m, i + 1, key)

\* /^key\s*=\s*q.*q/m matches at position i: the position of the closing
\* quote (the last q of the line), 0 when it does not match.
QuotedEnd(m, i, key, q) ==
    IF ~KeyLineAt(m, i, key) THEN 0
    ELSE LET open == SkipWs(m, SkipWs(m, i + 1) + 1)
         IN  IF open > Len(m) \/ m[open] # q THEN 0
             ELSE LET closes == {j \in (open + 1)..(LineEnd(m, open) - 1) : m[j] = q}
                  IN  IF closes = {} THEN 0
                      ELSE CHOOSE j \in closes : \A k \in closes : k <= j

\* replace(/^key\s*=\s*q.*q/gm, '') from position i on.
RECURSIVE StripQuoted(_, _, _, _)
StripQuoted(m, i, key, q) ==
    IF i > Len(m) THEN <<>>
    ELSE LET e == QuotedEnd(m, i, key, q)
         IN  IF e # 0 THEN StripQuoted(m, e + 1, key, q)
             ELSE <<m[i]>> \o StripQuoted(m, i + 1, key, q)

\* deployController.js lines 93-99: the manifest deployApp writes.
DeployNormalize(m, name, region) ==
    LET noApp    == StripLines(m, 1, "app")
        noRegion == StripLines(noApp, 1, "primary_region")
        noChecks == StripQuoted(StripQuoted(noRegion, 1, "checks", "\""), 1, "checks", "'")
        kept     == Rewrite(noChecks, 1, "auto_stop_machines", "true", "false")
    IN  <<"app", "SP", "=", "SP", "'", name, "'", "NL",
          "primary_region", "SP", "=", "SP", "'", region, "'", "NL">>
        \o Rewrite(kept, 1, "min_machines_running", "0", "1")

\* An unrewritten assignment /key\s*=\s*old/ is in the manifest.
HasMatch(m, key, old) == \E i \in 1..Len(m) : MatchEnd(m, i, key, old) # 0

(***************************************************************************)
(* The deploy requests and server environments of the model.               *)
(***************************************************************************)
RepoUrls ==
    { [scheme |-> "https", host |-> "github.com", path |-> << <<"a">>, <<"a", "p">> >>],
      [scheme |-> "https", host |-> "gitlab.com", path |-> << <<"a">>, <<"a", "p">> >>] }

AppNames == {"app-1", "App_1"}

SessionIds == { <<"s1">>, <<>>, <<"..", "elsewhere">>, Undefined }

\* The secret map, as Object.entries lists it.
SecretMaps == { <<>>, << <<"K1", "sec1">>, <<"K2", "">> >> }

Envs == { [FLY_API_TOKEN |-> "", OPENAI_API_KEY |-> ""],
          [FLY_API_TOKEN |-> "tokE", OPENAI_API_KEY |-> ""],
          [FLY_API_TOKEN |-> "tokF", OPENAI_API_KEY |-> ""] }

\* fly.toml is not in the tree.
NoFile == <<"<no file>">>

\* The manifest of the requests of SpecDeploy.
BaseManifest == <<"auto_stop_machines", "=", "true">>

Requests ==
    [ repoUrl : RepoUrls, appName : AppNames, sessionId : SessionIds,
      flyToken : {"tokF"}, githubToken : {"tokG"}, region : {"iad"},
      secrets : SecretMaps, flyToml : {BaseManifest}, files : {<<>>} ]

\* What can be on disk at workDir when the request arrives: nothing, an empty
\* directory, or a tree whose first non-hidden entry is a file or a directory.
InitialWorkDirStates(sid) ==
    IF sid = <<>> THEN {"empty", "rootDir"}
    ELSE IF sid = Undefined \/ ~StartsWith(PathJoin(TEMP_DIR, sid), TEMP_DIR) THEN {"absent"}
    ELSE {"absent", "empty", "rootFile", "rootDir"}

\* The values of the secret map.
SecretValues == {req.secrets[i][2] : i \in 1..Len(req.secrets)} \ {""}

\* The lines the deploy subprocess may write: a plain line, or a line that
\* echoes what the subprocess was given (FLY_API_TOKEN of DEPLOY_ENV, a secret).
OutLines == { <<"building", "image">>,
              IF SecretValues = {} THEN <<"env:", req.flyToken>>
              ELSE <<"env:", req.flyToken, CHOOSE v \in SecretValues : TRUE>> }

(***************************************************************************)
(* deployApp (deployController.js 27-261).                                 *)
(***************************************************************************)
DeployIdle ==
    /\ pc = "idle" /\ req = [sessionId |-> <<>>] /\ env = [FLY_API_TOKEN |-> ""]
    /\ events = <<>> /\ resEnded = FALSE /\ workDirState = "absent"
    /\ targetDir = "workDir" /\ calls = <<>> /\ thrown = <<>> /\ procOut = <<>>
    /\ outLines = 0 /\ status = [Hostname |-> "", Name |-> ""]
    /\ probes = 0 /\ healthy = FALSE /\ createResult = <<>>
    /\ flyTomlFile = <<>>
    /\ auxPaths = {}

InstallerIdle ==
    /\ flyBinPath = "" /\ installationPromise = 0 /\ lastInstallError = ""
    /\ disk = {} /\ runnable = {} /\ attempt = <<>> /\ caller = <<>>
    /\ nAttempts = 0 /\ config = [IS_VERCEL |-> FALSE, IS_WINDOWS |-> FALSE]

NormalizeIdle ==
    /\ manifest = <<>> /\ manifestIn = <<>> /\ normName = "" /\ passes = 0

\* What stands for the entries of a directory that does not exist.
NoDir == {"<no directory>"}

AnalyzeIdle ==
    /\ anPc = "idle" /\ anReq = [appName |-> ""] /\ anRepo = [status |-> 0]
    /\ anDir = NoDir /\ anCalls = <<>> /\ anErr = "" /\ anResult = [dockerfile |-> "null"]
    /\ anResponse = [code |-> 0]

ClientIdle ==
    /\ clPc = "idle" /\ clStream = <<>> /\ clRest = <<>> /\ clTorn = FALSE
    /\ logs = <<>> /\ currentStep = "input" /\ deployedUrl = "null" /\ error = "null"

PolicyIdle ==
    /\ polPc = 0 /\ polFiles = <<>> /\ polFiles0 = <<>> /\ polEvents = <<>>

OutputIdle ==
    /\ outText = <<>> /\ outRest = <<>> /\ outEvents = <<>>

TwoRunsIdle ==
    /\ runPc = <<>> /\ runSid = <<>> /\ wsDirs = {}

InitDeploy ==
    /\ pc = "request"
    /\ req \in Requests
    /\ env \in Envs
    /\ events = <<>>
    /\ resEnded = FALSE
    /\ workDirState \in InitialWorkDirStates(req.sessionId)
    /\ targetDir = "workDir"
    /\ calls = <<>>
    /\ thrown = <<>>
    /\ procOut = <<>>
    /\ outLines = 0
    /\ status = [Hostname |-> "", Name |-> ""]
    /\ probes = 0
    /\ healthy = FALSE
    /\ createResult = <<>>
    /\ flyTomlFile \in {NoFile, BaseManifest}
    /\ auxPaths = {}
    /\ InstallerIdle
    /\ NormalizeIdle
    /\ AnalyzeIdle
    /\ TwoRunsIdle
    /\ ClientIdle
    /\ PolicyIdle
    /\ OutputIdle

\* A failure that starts the run again instead of ending it.
ThrowRetry(msg) == thrown' = msg /\ pc' = "getFlyExe"

\* `throw new Error(msg)` inside the try block: control goes to the catch.
Throw(msg) == thrown' = msg /\ pc' = "catch"

\* Lines 28-44: validation, stream setup, workDir.
Validate ==
    /\ pc = "request"
    /\ IF ~isValidRepoUrl(req.repoUrl)
       THEN /\ events' = Append(events, Event("error", <<"Invalid Repo URL">>))
            /\ pc' = "returned"
       ELSE IF ~isValidAppName(req.appName)
       THEN /\ events' = Append(events, Event("error", <<"Invalid App Name">>))
            /\ pc' = "returned"
       ELSE IF req.sessionId = Undefined
       THEN \* path.join(TEMP_DIR, undefined) throws a TypeError outside the try
            /\ events' = events
            /\ pc' = "rejected"
       ELSE /\ events' = events
            /\ pc' = "getFlyExe"
    /\ UNCHANGED <<pvars, lvars, ivars, nvars, avars, tvars, cvars, auxPaths, createResult, req, env, flyTomlFile, resEnded, workDirState, targetDir, calls, thrown,
                   procOut, outLines, status, probes, healthy>>

\* Line 47: await getFlyExe().
AwaitFlyExe ==
    /\ pc = "getFlyExe"
    /\ \E ok \in BOOLEAN :
         IF ok THEN pc' = "preflight" /\ thrown' = thrown
         ELSE Throw(<<"Installation failed.">>)
    /\ UNCHANGED <<pvars, lvars, ivars, nvars, avars, tvars, cvars, auxPaths, createResult, req, env, flyTomlFile, events, resEnded, workDirState, targetDir, calls,
                   procOut, outLines, status, probes, healthy>>

\* The credential check with a failure that is noted but does not abort.
PreFlightNoAbort ==
    /\ pc = "preflight"
    /\ events' = stream(events, <<"Verifying credentials...">>, "info")
    /\ calls' = Append(calls, "orgs list")
    /\ \E ok \in BOOLEAN :
         thrown' = IF ok THEN thrown ELSE <<"Invalid Fly.io Token or Permissions.">>
    /\ pc' = "workspace"
    /\ UNCHANGED <<pvars, lvars, ivars, nvars, avars, tvars, cvars, auxPaths, createResult, req, env, flyTomlFile, resEnded, workDirState, targetDir,
                   procOut, outLines, status, probes, healthy>>

\* Lines 62-68: the credential check.
PreFlight ==
    /\ pc = "preflight"
    /\ events' = stream(events, <<"Verifying credentials...">>, "info")
    /\ calls' = Append(calls, "orgs list")
    /\ \E ok \in BOOLEAN :
         IF ok THEN pc' = "workspace" /\ thrown' = thrown
         ELSE Throw(<<"Invalid Fly.io Token or Permissions.">>)
    /\ UNCHANGED <<pvars, lvars, ivars, nvars, avars, tvars, cvars, auxPaths, createResult, req, env, flyTomlFile, resEnded, workDirState, targetDir,
                   procOut, outLines, status, probes, healthy>>

\* Lines 70-83: reuse a non-empty workspace or fetch the source.
PrepareWorkspace ==
    /\ pc = "workspace"
    /\ IF workDirState \in {"rootFile", "rootDir"}
       THEN /\ targetDir' = IF workDirState = "rootDir" THEN "subdir" ELSE "workDir"
            /\ pc' = "writeConfig"
            /\ UNCHANGED <<pvars, lvars, ivars, nvars, avars, tvars, cvars, auxPaths, events, calls, workDirState, thrown>>
       ELSE /\ events' = stream(events, <<"Downloading source...">>, "info")
            /\ calls' = Append(calls, "fetch archive")
            /\ \E res \in {"rootFile", "rootDir", "404", "500", "emptyRepo"} :
                 CASE res \in {"rootFile", "rootDir"} ->
                        /\ workDirState' = res
                        /\ targetDir' = "workDir"
                        /\ pc' = "writeConfig"
                        /\ thrown' = thrown
                   [] res = "404" ->
                        /\ workDirState' = "empty"
                        /\ targetDir' = targetDir
                        /\ Throw(<<"Repository not found or private (check token).">>)
                   [] res = "500" ->
                        /\ workDirState' = "empty"
                        /\ targetDir' = targetDir
                        /\ Throw(<<"Repo download failed:", "500">>)
                   [] OTHER ->
                        /\ workDirState' = "empty"
                        /\ targetDir' = targetDir
                        /\ Throw(<<"Repository is empty.">>)
    /\ UNCHANGED <<pvars, lvars, ivars, nvars, avars, tvars, cvars, auxPaths, createResult, req, env, flyTomlFile, resEnded, procOut, outLines, status, probes, healthy>>

\* Lines 107-114: the event announcing each auxiliary file.
RECURSIVE GeneratedEvents(_, _)
GeneratedEvents(evs, files) ==
    IF files = <<>> THEN evs
    ELSE GeneratedEvents(stream(evs, <<"Generated", Head(files).name>>, "info"), Tail(files))

\* Lines 101-113: fly.toml after the manifest was written to tomlPath and
\* the auxiliary files to path.join(targetDir, f.name), in that order.
RECURSIVE WriteFiles(_, _)
WriteFiles(toml, files) ==
    IF files = <<>> THEN toml
    ELSE WriteFiles(IF Head(files).name = "fly.toml" THEN Head(files).content ELSE toml,
                    Tail(files))

\* f.name as path.join reads it: the segments between the slashes.
NameSegs(name) ==
    CASE name = "../../outside.sh" -> <<"..", "..", "outside.sh">>
      [] name = "conf/config.yaml" -> <<"conf", "config.yaml">>
      [] OTHER -> <<name>>

\* targetDir as a path (line 70, line 77).
TargetPath == IF targetDir = "subdir" THEN Append(WorkDir, "repo") ELSE WorkDir

\* Line 109: filePath = path.join(targetDir, f.name)
FilePath(f) == PathJoin(TargetPath, NameSegs(f.name))

\* Lines 85-126: fly.toml, Dockerfile, auxiliary files, .dockerignore.
WriteConfig ==
    /\ pc = "writeConfig"
    /\ \E preferExistingConfig \in BOOLEAN, res \in {"ok", "EACCES"} :
         LET announced == stream(events, <<"Writing config...">>, "info") IN
         IF preferExistingConfig /\ flyTomlFile = NoFile
         THEN /\ events' = announced
              /\ Throw(<<"Missing fly.toml">>)
              /\ flyTomlFile' = flyTomlFile
              /\ auxPaths' = auxPaths
         ELSE IF res = "EACCES"
         THEN /\ events' = announced
              /\ Throw(<<"EACCES: permission denied">>)
              /\ flyTomlFile' = flyTomlFile
              /\ auxPaths' = auxPaths
         ELSE LET tomlContent ==
                    DeployNormalize(IF preferExistingConfig THEN flyTomlFile ELSE req.flyToml,
                                    req.appName, req.region)
              IN  /\ flyTomlFile' = WriteFiles(tomlContent, req.files)
                  /\ auxPaths' = {FilePath(req.files[i]) : i \in 1..Len(req.files)}
                  /\ events' = stream(GeneratedEvents(announced, req.files),
                                      <<"Sanitizing Build Context...">>, "info")
                  /\ pc' = "policy"
                  /\ thrown' = thrown
    /\ UNCHANGED <<pvars, lvars, ivars, nvars, avars, tvars, cvars, createResult, req, env, resEnded, workDirState, targetDir, calls,
                   procOut, outLines, status, probes, healthy>>

\* Line 129: PolicyEngine.apply (lib/policy.js).
ApplyPolicy ==
    /\ pc = "policy"
    /\ \E heal \in BOOLEAN :
         events' = IF heal
                   THEN stream(events, <<"Policy: Missing config.yaml detected. Injecting default...">>, "warning")
                   ELSE events
    /\ pc' = "register"
    /\ UNCHANGED <<pvars, lvars, ivars, nvars, avars, tvars, cvars, auxPaths, createResult, req, env, flyTomlFile, resEnded, workDirState, targetDir, calls, thrown,
                   procOut, outLines, status, probes, healthy>>

\* What `apps create` may print when it fails.
CreateFailures == { <<"Name", "has", "already", "been", "taken">>, <<"unauthorized">> }

\* Lines 131-139: apps create; the catch block only looks for taken/exists.
RegisterApp ==
    /\ pc = "register"
    /\ calls' = Append(calls, "apps create")
    /\ \E ok \in BOOLEAN :
         LET started == stream(events, <<"Registering app...">>, "info") IN
         IF ok
         THEN /\ events' = stream(started, <<"[Reg]", "New app created:", req.appName>>, "log")
              /\ createResult' = <<"created">>
         ELSE \E err \in CreateFailures :
                /\ events' = IF Contains(err, "taken") \/ Contains(err, "exists")
                             THEN stream(started, <<"App exists, updating...">>, "warning")
                             ELSE started
                /\ createResult' = err
    /\ pc' = "volumes"
    /\ UNCHANGED <<pvars, lvars, ivars, nvars, avars, tvars, cvars, auxPaths, req, env, flyTomlFile, resEnded, workDirState, targetDir, thrown,
                   procOut, outLines, status, probes, healthy>>

\* The mount source the written manifest declares ("" for none).
VolNames == {"", "data"}

\* The entry of calls that follows a provisioning call that threw.
Failed == "exit 1"

\* `volumes list` and what lines 162-163 make of it.
ListCall(listed) == IF listed = "fail" THEN <<"volumes list", Failed>> ELSE <<"volumes list">>

\* Lines 141-187: volume provisioning.
ProvisionVolume ==
    /\ pc = "volumes"
    /\ \E volName \in VolNames :
         IF volName = ""
         THEN UNCHANGED <<events, calls>>
         ELSE LET detected == stream(events, <<"Detected Volume Request:", volName>>, "info") IN
              \E listed \in {"has", "hasNot", "fail"} :
                IF listed = "has"
                THEN /\ calls' = Append(calls, "volumes list")
                     /\ events' = stream(detected, <<"Volume", volName, "already exists.">>, "info")
                ELSE LET creating == stream(detected, <<"Creating Volume", volName, "in", req.region>>, "info") IN
                     /\ \E ok \in BOOLEAN :
                          /\ calls' = calls \o ListCall(listed) \o <<"volumes create">>
                                              \o (IF ok THEN <<>> ELSE <<Failed>>)
                          /\ events' =
                            IF ok
                            THEN stream(creating, <<"Volume", volName, "created successfully.">>, "success")
                            ELSE stream(creating,
                                        <<"Failed to create volume:">>
                                        \o ExecaMessage(<<"flyctl", "volumes", "create", volName, "--region",
                                                          req.region, "--app", req.appName>>, <<>>),
                                        "warning")
    /\ pc' = "secrets"
    /\ UNCHANGED <<pvars, lvars, ivars, nvars, avars, tvars, cvars, auxPaths, createResult, req, env, flyTomlFile, resEnded, workDirState, targetDir, thrown,
                   procOut, outLines, status, probes, healthy>>

\* Lines 193-195: the KEY=VALUE arguments, entries with an empty key or value dropped.
RECURSIVE secretArgs(_)
secretArgs(entries) ==
    IF entries = <<>> THEN <<>>
    ELSE IF Head(entries)[1] # "" /\ Head(entries)[2] # ""
         THEN <<Head(entries)>> \o secretArgs(Tail(entries))
         ELSE secretArgs(Tail(entries))

\* The words of the KEY=VALUE arguments on the command line.
RECURSIVE ArgWords(_)
ArgWords(args) ==
    IF args = <<>> THEN <<>>
    ELSE <<Head(args)[1], "=", Head(args)[2]>> \o ArgWords(Tail(args))

\* Lines 189-204: secrets set.
SetSecrets ==
    /\ pc = "secrets"
    /\ IF Len(req.secrets) > 0
       THEN LET configuring == stream(events, <<"Configuring secrets...">>, "info")
                args == secretArgs(req.secrets) IN
            IF Len(args) > 0
            THEN \E ok \in BOOLEAN :
                   /\ calls' = calls \o <<"secrets set">> \o (IF ok THEN <<>> ELSE <<Failed>>)
                   /\ events' =
                        IF ok
                        THEN stream(configuring, <<"Set", "secret(s) successfully.">>, "success")
                        ELSE stream(configuring,
                                    <<"Failed to set secrets:">>
                                    \o ExecaMessage(<<"flyctl", "secrets", "set">> \o ArgWords(args)
                                                    \o <<"--app", req.appName>>, <<>>),
                                    "warning")
            ELSE events' = configuring /\ calls' = calls
       ELSE UNCHANGED <<events, calls>>
    /\ pc' = "deploy"
    /\ UNCHANGED <<pvars, lvars, ivars, nvars, avars, tvars, cvars, auxPaths, createResult, req, env, flyTomlFile, resEnded, workDirState, targetDir, thrown,
                   procOut, outLines, status, probes, healthy>>

\* Lines 206-212: the deploy subprocess is spawned.
StartDeploy ==
    /\ pc = "deploy"
    /\ events' = stream(events, <<"Deploying...">>, "log")
    /\ calls' = Append(calls, "deploy")
    /\ pc' = "deploying"
    /\ UNCHANGED <<pvars, lvars, ivars, nvars, avars, tvars, cvars, auxPaths, createResult, req, env, flyTomlFile, resEnded, workDirState, targetDir, thrown,
                   procOut, outLines, status, probes, healthy>>

\* Lines 214-215: a line of subprocess output is forwarded as a log event.
DeployOutput ==
    /\ pc = "deploying"
    /\ outLines < MaxOutLines
    /\ \E line \in OutLines :
         /\ events' = stream(events, line, "log")
         /\ procOut' = procOut \o line
    /\ outLines' = outLines + 1
    /\ UNCHANGED <<pvars, lvars, ivars, nvars, avars, tvars, cvars, auxPaths, pc, createResult, req, env, flyTomlFile, resEnded, workDirState, targetDir, calls, thrown,
                   status, probes, healthy>>

\* Line 217: await proc; a non-zero exit throws.
DeployExit ==
    /\ pc = "deploying"
    /\ \E ok \in BOOLEAN :
         IF ok THEN pc' = "status" /\ thrown' = thrown
         ELSE Throw(ExecaMessage(<<"flyctl", "deploy", "--remote-only">>, procOut))
    /\ UNCHANGED <<pvars, lvars, ivars, nvars, avars, tvars, cvars, auxPaths, createResult, req, env, flyTomlFile, events, resEnded, workDirState, targetDir, calls,
                   procOut, outLines, status, probes, healthy>>

\* Lines 219-227: status --json, and the announcement of the health check.
QueryStatus ==
    /\ pc = "status"
    /\ calls' = Append(calls, "status")
    /\ \E res \in {"host", "noHost", "fail"} :
         CASE res = "fail" ->
                /\ Throw(ExecaMessage(<<"flyctl", "status", "--json">>, <<>>))
                /\ UNCHANGED <<pvars, lvars, ivars, nvars, avars, tvars, cvars, auxPaths, events, status>>
           [] res = "host" ->
                /\ status' = [Hostname |-> "app-1.fly.dev", Name |-> req.appName]
                /\ events' = stream(events, <<"Verifying deployment health at",
                                              "https://", "app-1.fly.dev", "/">>, "info")
                /\ pc' = "health"
                /\ thrown' = thrown
           [] OTHER ->
                /\ status' = [Hostname |-> "undefined", Name |-> req.appName]
                /\ events' = events
                /\ pc' = "success"
                /\ thrown' = thrown
    /\ UNCHANGED <<pvars, lvars, ivars, nvars, avars, tvars, cvars, auxPaths, createResult, req, env, flyTomlFile, resEnded, workDirState, targetDir,
                   procOut, outLines, probes, healthy>>

\* The number of probes of the health loop (line 230).
MaxProbes == 5

\* What a probe may answer: an HTTP status, or 0 when fetch throws.
ProbeResults == {200, 404, 0}

\* Response.ok
ResponseOk(st) == st >= 200 /\ st <= 299

\* `${healthRes.status}`
StatusText(st) == CASE st = 200 -> "200" [] st = 404 -> "404" [] OTHER -> "0"

\* Lines 230-244: one iteration of the health loop.
HealthProbe ==
    /\ pc = "health"
    /\ probes < MaxProbes
    /\ probes' = probes + 1
    /\ calls' = Append(calls, "probe")
    /\ \E st \in ProbeResults :
         IF st = 0
         THEN /\ events' = stream(events, <<"Waiting for DNS propagation...">>, "log")
              /\ UNCHANGED <<pvars, lvars, ivars, nvars, avars, tvars, cvars, auxPaths, healthy, pc>>
         ELSE IF ResponseOk(st)
         THEN /\ healthy' = TRUE
              /\ events' = stream(events, <<"Health check passed", StatusText(st)>>, "success")
              /\ pc' = "success"
         ELSE /\ events' = stream(events, <<"Health check pending", StatusText(st)>>, "log")
              /\ UNCHANGED <<pvars, lvars, ivars, nvars, avars, tvars, cvars, auxPaths, healthy, pc>>
    /\ UNCHANGED <<pvars, lvars, ivars, nvars, avars, tvars, cvars, auxPaths, createResult, req, env, flyTomlFile, resEnded, workDirState, targetDir, thrown,
                   procOut, outLines, status>>

\* The loop running out treated as a failure of the run.
HealthExhaustedFatal ==
    /\ pc = "health"
    /\ probes = MaxProbes
    /\ ~healthy
    /\ Throw(<<"health check failed">>)
    /\ UNCHANGED <<pvars, lvars, ivars, nvars, avars, tvars, cvars, auxPaths, createResult, req, env, flyTomlFile, events, resEnded, workDirState, targetDir, calls,
                   procOut, outLines, status, probes, healthy>>

\* Lines 246-248: the loop ran out without a healthy answer.
HealthExhausted ==
    /\ pc = "health"
    /\ probes = MaxProbes
    /\ ~healthy
    /\ events' = stream(events, <<"App deployed, but health check failed at",
                                  "https://", status.Hostname, "/">>, "warning")
    /\ pc' = "success"
    /\ UNCHANGED <<pvars, lvars, ivars, nvars, avars, tvars, cvars, auxPaths, createResult, req, env, flyTomlFile, resEnded, workDirState, targetDir, calls, thrown,
                   procOut, outLines, status, probes, healthy>>

\* Line 251: the final success record.
EmitSuccess ==
    /\ pc = "success"
    /\ events' = Append(events, [type |-> "success", message |-> <<>>,
                                 appUrl |-> status.Hostname, appName |-> status.Name])
    /\ pc' = "finally"
    /\ UNCHANGED <<pvars, lvars, ivars, nvars, avars, tvars, cvars, auxPaths, createResult, req, env, flyTomlFile, resEnded, workDirState, targetDir, calls, thrown,
                   procOut, outLines, status, probes, healthy>>

\* Lines 253-256: the catch block.
CatchError ==
    /\ pc = "catch"
    /\ events' = stream(events, <<"Error:">> \o sanitizeLog(thrown), "error")
    /\ pc' = "finally"
    /\ UNCHANGED <<pvars, lvars, ivars, nvars, avars, tvars, cvars, auxPaths, createResult, req, env, flyTomlFile, resEnded, workDirState, targetDir, calls, thrown,
                   procOut, outLines, status, probes, healthy>>

\* Lines 21-25: cleanup(dir).
cleanup(dir, state) == IF StartsWith(dir, TEMP_DIR) THEN "absent" ELSE state

\* Lines 257-260: the finally block.
Finally ==
    /\ pc = "finally"
    /\ workDirState' = cleanup(WorkDir, workDirState)
    /\ resEnded' = TRUE
    /\ pc' = "returned"
    /\ UNCHANGED <<pvars, lvars, ivars, nvars, avars, tvars, cvars, auxPaths, createResult, req, env, flyTomlFile, events, targetDir, calls, thrown,
                   procOut, outLines, status, probes, healthy>>

NextDeploy ==
    \/ Validate \/ AwaitFlyExe \/ PreFlight \/ PrepareWorkspace \/ WriteConfig
    \/ ApplyPolicy \/ RegisterApp \/ ProvisionVolume \/ SetSecrets
    \/ StartDeploy \/ DeployOutput \/ DeployExit \/ QueryStatus
    \/ HealthProbe \/ HealthExhausted \/ EmitSuccess \/ CatchError \/ Finally

SpecDeploy == InitDeploy /\ [][NextDeploy]_vars

(***************************************************************************)
(* Deploy runs of valid requests that differ in the manifest, the          *)
(* auxiliary files and the fly.toml of the source tree.                    *)
(***************************************************************************)
\* req.body.flyToml, and the fly.toml a repository may hold.
DeployManifests ==
    { <<"x">>,
      <<"auto_stop_machines", "=", "true">>,
      <<"min_machines_running", "NL", "=", "0">>,
      <<"app", "=", "x", "NL", "auto_stop_machines", "=", "true", "NL",
        "min_machines_running", "=", "0">>,
      <<"app", "=", "auto_stop_machines", "=", "true">> }

\* req.body.files
FileLists ==
    { <<>>,
      << [name |-> "config.yaml", content |-> <<"x">>] >>,
      << [name |-> "fly.toml", content |-> <<"auto_stop_machines", "=", "true">>] >>,
      << [name |-> "conf/config.yaml", content |-> <<"x">>],
         [name |-> "../../outside.sh", content |-> <<"x">>] >> }

ManifestRequests ==
    [ repoUrl : {u \in RepoUrls : isValidRepoUrl(u)}, appName : {"app-1"},
      sessionId : {<<"s1">>}, flyToken : {"tokF"}, githubToken : {"tokG"},
      region : {"iad"}, secrets : {<<>>}, flyToml : DeployManifests, files : FileLists ]

InitDeployManifest ==
    /\ pc = "request"
    /\ req \in ManifestRequests
    /\ env = [FLY_API_TOKEN |-> "", OPENAI_API_KEY |-> ""]
    /\ events = <<>>
    /\ resEnded = FALSE
    /\ workDirState = "rootFile"
    /\ targetDir = "workDir"
    /\ calls = <<>>
    /\ thrown = <<>>
    /\ procOut = <<>>
    /\ outLines = 0
    /\ status = [Hostname |-> "", Name |-> ""]
    /\ probes = 0
    /\ healthy = FALSE
    /\ createResult = <<>>
    /\ flyTomlFile \in {m \in DeployManifests : Len(m) <= 4} \cup {NoFile}
    /\ auxPaths = {}
    /\ InstallerIdle
    /\ NormalizeIdle
    /\ AnalyzeIdle
    /\ TwoRunsIdle
    /\ ClientIdle
    /\ PolicyIdle
    /\ OutputIdle

SpecDeployManifest == InitDeployManifest /\ [][NextDeploy]_vars

(***************************************************************************)
(* The installer (lib/installer.js).                                       *)
(***************************************************************************)
\* The candidates: the command name looked up on PATH, FLY_BIN and homeFly.
PATH_FLYCTL == "flyctl"
FLY_BIN == "/tmp/fly_home/.fly/bin/flyctl"
HOME_FLY == "~/.fly/bin/flyctl"

\* The pinned versions of the download matrix (lines 103-104).
PinnedVersions == <<"0.4.11", "0.2.22">>

\* What the release-metadata query may answer ("" when it fails).
LatestTags == {"", "0.4.12", "0.4.11"}

Callers == 1..MaxCallers
Attempts == 1..MaxAttempts

\* The list of versions as pushed, duplicates kept.
NoDedupe(vs) == vs

\* [...new Set(versions)]: the first occurrence of each version is kept.
RECURSIVE Dedupe(_)
Dedupe(vs) ==
    IF vs = <<>> THEN <<>>
    ELSE LET front == Dedupe(SubSeq(vs, 1, Len(vs) - 1)) IN
         IF vs[Len(vs)] \in Range(front) THEN front ELSE Append(front, vs[Len(vs)])

\* A verification that only looks for the file.
VerifyExists(p) == p \in disk

\* Lines 42-54: verify(p). existsSync(p) is asked of the path as written, so
\* for the command name it looks at ./flyctl of the working directory.
verify(p) == p \in disk /\ p \in runnable

\* The cache test with the wrong path looked up on the disk.
CacheHitWrongPath == flyBinPath # "" /\ FLY_BIN \in disk

\* Line 160: the cached path is returned while it still exists.
CacheHit == flyBinPath # "" /\ flyBinPath \in disk

\* The guard left out: every call that misses the cache installs.
NoGuard == TRUE

\* Line 161: an installation is started only when none is in flight.
NoInstallInFlight == installationPromise = 0

NewAttempt == [step |-> "path", ops |-> <<>>, versions |-> <<>>, idx |-> 0, value |-> ""]

InitInstaller ==
    /\ flyBinPath = ""
    /\ installationPromise = 0
    /\ lastInstallError = ""
    /\ disk \in SUBSET {PATH_FLYCTL, FLY_BIN, HOME_FLY}
    /\ runnable \in SUBSET {PATH_FLYCTL, FLY_BIN, HOME_FLY}
    /\ (runnable \ {PATH_FLYCTL}) \subseteq disk
    /\ HOME_FLY \in disk => HOME_FLY \in runnable
    /\ attempt = [a \in Attempts |-> [NewAttempt EXCEPT !.step = "unused"]]
    /\ caller = [c \in Callers |-> [st |-> "idle", awaiting |-> 0, result |-> ""]]
    /\ nAttempts = 0
    /\ config \in {[IS_VERCEL |-> FALSE, IS_WINDOWS |-> FALSE],
                   [IS_VERCEL |-> TRUE, IS_WINDOWS |-> FALSE],
                   [IS_VERCEL |-> FALSE, IS_WINDOWS |-> TRUE]}
    /\ DeployIdle
    /\ NormalizeIdle
    /\ AnalyzeIdle
    /\ TwoRunsIdle
    /\ ClientIdle
    /\ PolicyIdle
    /\ OutputIdle

\* Lines 159-167: getFlyExe(), called by c. The function has no await: the
\* test of the cache, the test of the guard and the start of the installation
\* are one step.
getFlyExe(c) ==
    /\ caller[c].st \in {"idle", "done"}
    /\ IF CacheHit
       THEN /\ caller' = [caller EXCEPT ![c] = [st |-> "done", awaiting |-> 0, result |-> flyBinPath]]
            /\ UNCHANGED <<installationPromise, attempt, nAttempts>>
       ELSE IF NoInstallInFlight
       THEN /\ nAttempts < MaxAttempts
            /\ nAttempts' = nAttempts + 1
            /\ installationPromise' = nAttempts + 1
            /\ attempt' = [attempt EXCEPT ![nAttempts + 1] = NewAttempt]
            /\ caller' = [caller EXCEPT ![c] = [st |-> "waiting", awaiting |-> nAttempts + 1, result |-> ""]]
       ELSE /\ caller' = [caller EXCEPT ![c] = [st |-> "waiting", awaiting |-> installationPromise, result |-> ""]]
            /\ UNCHANGED <<pvars, lvars, installationPromise, attempt, nAttempts>>
    /\ UNCHANGED <<pvars, lvars, flyBinPath, lastInstallError, disk, runnable, config, dvars, nvars, avars, tvars, cvars>>

\* performAntifragileInstallation returns p.
Returned(a, p, ops) ==
    /\ attempt' = [attempt EXCEPT ![a].step = "returned", ![a].value = p, ![a].ops = ops]
    /\ UNCHANGED <<flyBinPath, installationPromise, lastInstallError>>

\* performAntifragileInstallation throws.
Thrown(a, ops) ==
    /\ attempt' = [attempt EXCEPT ![a].step = "threw", ![a].value = "", ![a].ops = ops]
    /\ UNCHANGED <<flyBinPath, installationPromise, lastInstallError>>

\* The installation goes on with its next step.
Continue(a, next, ops) ==
    /\ attempt' = [attempt EXCEPT ![a].step = next, ![a].ops = ops]
    /\ UNCHANGED <<flyBinPath, installationPromise, lastInstallError>>

\* Lines 56-60: the three candidates, in order.
VerifyCandidates(a) ==
    /\ attempt[a].step \in {"path", "local", "home"}
    /\ LET st == attempt[a].step
           p == CASE st = "path" -> PATH_FLYCTL [] st = "local" -> FLY_BIN [] OTHER -> HOME_FLY
           tried == st # "home" \/ ~config.IS_VERCEL
           ops == IF tried THEN Append(attempt[a].ops, <<"verify", p>>) ELSE attempt[a].ops
           next == CASE st = "path" -> "local"
                     [] st = "local" -> "home"
                     [] OTHER -> IF config.IS_WINDOWS THEN "meta" ELSE "curl"
       IN IF tried /\ verify(p) THEN Returned(a, p, ops) ELSE Continue(a, next, ops)
    /\ UNCHANGED <<pvars, lvars, disk, runnable, caller, nAttempts, config, dvars, nvars, avars, tvars, cvars>>

\* Lines 66-84: the install script, fetched with curl and then with wget. The
\* script fails, or leaves a binary at FLY_BIN that verifies or does not.
ShellInstall(a) ==
    /\ attempt[a].step \in {"curl", "wget"}
    /\ LET st == attempt[a].step
           ops == Append(attempt[a].ops, <<"sh", st>>)
           next == IF st = "curl" THEN "wget" ELSE "meta"
       IN \E res \in {"failed", "broken", "installed"} :
            CASE res = "failed" ->
                   /\ Continue(a, next, ops)
                   /\ UNCHANGED <<disk, runnable>>
              [] res = "broken" ->
                   /\ disk' = disk \cup {FLY_BIN}
                   /\ runnable' = runnable \ {FLY_BIN}
                   /\ Continue(a, next, Append(ops, <<"verify", FLY_BIN>>))
              [] OTHER ->
                   /\ disk' = disk \cup {FLY_BIN}
                   /\ runnable' = runnable \cup {FLY_BIN}
                   /\ Returned(a, FLY_BIN, Append(ops, <<"verify", FLY_BIN>>))
    /\ UNCHANGED <<pvars, lvars, caller, nAttempts, config, dvars, nvars, avars, tvars, cvars>>

\* Lines 94-105: the release-metadata query and the list of versions.
QueryLatest(a) ==
    /\ attempt[a].step = "meta"
    /\ \E tag \in LatestTags :
         attempt' = [attempt EXCEPT
                       ![a].step = "download",
                       ![a].ops = Append(attempt[a].ops, <<"fetch", "releases/latest">>),
                       ![a].versions = Dedupe((IF tag = "" THEN <<>> ELSE <<tag>>) \o PinnedVersions),
                       ![a].idx = 1]
    /\ UNCHANGED <<pvars, lvars, flyBinPath, installationPromise, lastInstallError, disk, runnable,
                   caller, nAttempts, config, dvars, nvars, avars, tvars, cvars>>

\* Lines 109-154: one version of the download matrix. The artifact is missing
\* or does not unpack, or a binary lands at FLY_BIN that verifies or does not.
DownloadVersion(a) ==
    /\ attempt[a].step = "download"
    /\ attempt[a].idx <= Len(attempt[a].versions)
    /\ LET v == attempt[a].versions[attempt[a].idx]
           ops == Append(attempt[a].ops, <<"download", v>>)
       IN \E res \in {"failed", "broken", "installed"} :
            CASE res = "failed" ->
                   /\ attempt' = [attempt EXCEPT ![a].ops = ops, ![a].idx = @ + 1]
                   /\ UNCHANGED <<flyBinPath, installationPromise, lastInstallError, disk, runnable>>
              [] res = "broken" ->
                   /\ disk' = disk \cup {FLY_BIN}
                   /\ runnable' = runnable \ {FLY_BIN}
                   /\ attempt' = [attempt EXCEPT ![a].ops = Append(ops, <<"verify", FLY_BIN>>),
                                                 ![a].idx = @ + 1]
                   /\ UNCHANGED <<flyBinPath, installationPromise, lastInstallError>>
              [] OTHER ->
                   /\ disk' = disk \cup {FLY_BIN}
                   /\ runnable' = runnable \cup {FLY_BIN}
                   /\ Returned(a, FLY_BIN, Append(ops, <<"verify", FLY_BIN>>))
    /\ UNCHANGED <<pvars, lvars, caller, nAttempts, config, dvars, nvars, avars, tvars, cvars>>

\* Line 156: every version was tried.
InstallationFailed(a) ==
    /\ attempt[a].step = "download"
    /\ attempt[a].idx > Len(attempt[a].versions)
    /\ Thrown(a, attempt[a].ops)
    /\ UNCHANGED <<pvars, lvars, disk, runnable, caller, nAttempts, config, dvars, nvars, avars, tvars, cvars>>

\* The callbacks with a .catch that leaves the rejected promise in the guard.
SettleKeepRejected(a) ==
    /\ attempt[a].step \in {"returned", "threw"}
    /\ IF attempt[a].step = "returned"
       THEN /\ flyBinPath' = attempt[a].value
            /\ installationPromise' = 0
            /\ UNCHANGED lastInstallError
       ELSE /\ lastInstallError' = "Installation failed."
            /\ UNCHANGED <<flyBinPath, installationPromise>>
    /\ attempt' = [attempt EXCEPT ![a] = [NewAttempt EXCEPT
                       !.step = IF attempt[a].step = "returned" THEN "resolved" ELSE "rejected",
                       !.value = attempt[a].value]]
    /\ UNCHANGED <<pvars, lvars, disk, runnable, caller, nAttempts, config, dvars, nvars, avars, tvars, cvars>>

\* Lines 163-164: the callbacks of the installation's promise. The locals of
\* the finished installation are gone.
Settle(a) ==
    /\ attempt[a].step \in {"returned", "threw"}
    /\ IF attempt[a].step = "returned"
       THEN /\ flyBinPath' = attempt[a].value
            /\ UNCHANGED lastInstallError
       ELSE /\ lastInstallError' = "Installation failed."
            /\ UNCHANGED flyBinPath
    /\ installationPromise' = 0
    /\ attempt' = [attempt EXCEPT ![a] = [NewAttempt EXCEPT
                       !.step = IF attempt[a].step = "returned" THEN "resolved" ELSE "rejected",
                       !.value = attempt[a].value]]
    /\ UNCHANGED <<pvars, lvars, disk, runnable, caller, nAttempts, config, dvars, nvars, avars, tvars, cvars>>

\* Line 166: the promise a caller got is settled; its await goes on.
Resume(c) ==
    /\ caller[c].st = "waiting"
    /\ attempt[caller[c].awaiting].step \in {"resolved", "rejected"}
    /\ caller' = [caller EXCEPT ![c].st = "done",
                                ![c].result = IF attempt[caller[c].awaiting].step = "resolved"
                                              THEN attempt[caller[c].awaiting].value
                                              ELSE "Installation failed."]
    /\ UNCHANGED <<pvars, lvars, flyBinPath, installationPromise, lastInstallError, disk, runnable,
                   attempt, nAttempts, config, dvars, nvars, avars, tvars, cvars>>

\* The environment: the cached binary is removed from the disk (the install
\* directory lies under os.tmpdir()).
BinaryRemoved ==
    /\ flyBinPath \in disk
    /\ disk' = disk \ {flyBinPath}
    /\ runnable' = runnable \ ({flyBinPath} \ {PATH_FLYCTL})
    /\ UNCHANGED <<pvars, lvars, flyBinPath, installationPromise, lastInstallError, attempt, caller,
                   nAttempts, config, dvars, nvars, avars, tvars, cvars>>

NextInstaller ==
    \/ \E c \in Callers : getFlyExe(c)
    \/ \E a \in Attempts : VerifyCandidates(a)
    \/ \E a \in Attempts : ShellInstall(a)
    \/ \E a \in Attempts : QueryLatest(a)
    \/ \E a \in Attempts : DownloadVersion(a)
    \/ \E a \in Attempts : InstallationFailed(a)
    \/ \E a \in Attempts : Settle(a)
    \/ \E c \in Callers : Resume(c)
    \/ BinaryRemoved

SpecInstaller == InitInstaller /\ [][NextInstaller]_vars

(***************************************************************************)
(* The manifest post-processing of analyzeRepo                             *)
(* (controllers/healthController.js, lines 64-77).  A manifest is a       *)
(* sequence of lexical tokens; "SP" and "NL" are the whitespace tokens     *)
(* (\s), "NL" is the line terminator, "x" is any other text.               *)
(***************************************************************************)
\* The tokens of the manifests a strategy returns ("SP" comes in with the
\* rewritten lines, so the second pass reads it).
ManifestTokens ==
    {"app", "=", "NL", "auto_stop_machines", "true",
     "min_machines_running", "0", "x"}

\* result.fly_toml as the strategy returned it.
Manifests == UNION {[1..n -> ManifestTokens] : n \in 0..MaxManifestLen}

\* req.body.appName of an analyze request that passed line 38 ("" = absent).
AnalyzeNames == {"", "app-1"}

\* Lines 64-77: the global post-processing of result.fly_toml.
PostProcess(m, name) ==
    IF m = <<>> THEN m
    ELSE LET named == IF name # "" THEN ForceAppName(m, name) ELSE m
             kept  == Rewrite(named, 1, "auto_stop_machines", "true", "false")
         IN  Rewrite(kept, 1, "min_machines_running", "0", "1")

\* The passes of one manifest through the post-processing that are followed.
MaxPasses == 2

\* Number of lines the subprocess writes.
MaxTextLines == 3

InitNormalize ==
    /\ manifestIn \in Manifests
    /\ manifest = manifestIn
    /\ normName \in AnalyzeNames
    /\ passes = 0
    /\ DeployIdle
    /\ InstallerIdle
    /\ AnalyzeIdle
    /\ TwoRunsIdle
    /\ ClientIdle
    /\ PolicyIdle
    /\ OutputIdle

\* analyzeRepo post-processes the manifest its strategy returned.
Normalize ==
    /\ passes < MaxPasses
    /\ manifest' = PostProcess(manifest, normName)
    /\ passes' = passes + 1
    /\ UNCHANGED <<pvars, lvars, dvars, ivars, avars, tvars, cvars, manifestIn, normName>>

NextNormalize == Normalize

SpecNormalize == InitNormalize /\ [][NextNormalize]_vars

(***************************************************************************)
(* analyzeRepo (controllers/healthController.js 31-99) with downloadRepo   *)
(* (lib/git.js) and AIStrategy.analyze (strategies/ai.js).                 *)
(***************************************************************************)
\* req.body.appName of an analyze request.
AnalyzeRequestNames == AnalyzeNames \cup {"App_1"}

\* req.body.repoUrl of an analyze request.
AnalyzeRepoUrls ==
    RepoUrls \cup { [scheme |-> "https", host |-> "github.com",
                     path |-> << <<"a">>, <<"sniproxy">> >>] }

AnalyzeRequests ==
    [repoUrl : AnalyzeRepoUrls, appName : AnalyzeRequestNames, preferExistingConfig : BOOLEAN]

\* ProxyStrategy.detect (strategies/proxy.js): the URL includes 'sniproxy'.
detect(url) == \E i \in 1..Len(url.path) : "sniproxy" \in Range(url.path[i])

\* ProxyStrategy.analyze: the lines of the preset manifest with the keys the
\* model follows (app, primary_region, [[vm]] memory).
ProxyManifest(name) ==
    AppLine(IF name = "" THEN "undefined" ELSE name)
    \o <<"NL", "primary_region", "SP", "=", "SP", "'", "iad", "'", "NL",
          "memory", "SP", "=", "SP", "'", "512mb", "'", "NL">>

\* The files AIStrategy reads that the modelled repositories may hold, in
\* the order of ai.js line 14.
ContextFiles == <<"package.json", "fly.toml", "Dockerfile">>

\* The repository: the status of the archive request, the entries of the
\* archive's root folder, and the size of its package.json in characters.
Repositories ==
    [status : {200, 404, 500}, tree : SUBSET Range(ContextFiles), pkgSize : {100, 13000, 25000}]

\* The characters of a file of the repository.
FileSize(f) ==
    CASE f = "package.json" -> anRepo.pkgSize [] f = "fly.toml" -> 300 [] OTHER -> 200

\* The characters of `\n${f}:\n`.
HeaderLen(f) ==
    CASE f = "package.json" -> 15 [] f = "fly.toml" -> 11 [] OTHER -> 13

\* The index in the unsliced context at which the part of file number k starts.
RECURSIVE ContextOffset(_, _)
ContextOffset(dir, k) ==
    IF k = 1 THEN 0
    ELSE ContextOffset(dir, k - 1)
         + (IF ContextFiles[k - 1] \in dir
            THEN HeaderLen(ContextFiles[k - 1]) + FileSize(ContextFiles[k - 1])
            ELSE 0)

\* ai.js line 19: c.slice(12000) keeps the characters from this index on.
SliceStart == 12000

\* The characters of c, the concatenation of the parts of the files read.
ContextTotal(dir) == ContextOffset(dir, Len(ContextFiles) + 1)

\* The characters of the context: c.slice(12000).length
ContextLength(dir) ==
    IF ContextTotal(dir) > SliceStart THEN ContextTotal(dir) - SliceStart ELSE 0

\* context.includes(`${f}:`): the header of f, which starts one character
\* into the part of f, lies in the characters the slice keeps.
ContextIncludes(dir, f) ==
    \E k \in 1..Len(ContextFiles) :
        /\ ContextFiles[k] = f
        /\ f \in dir
        /\ ContextOffset(dir, k) + 1 >= SliceStart

\* ai.js line 22.
hasDockerfile(dir) == ContextIncludes(dir, "Dockerfile")

\* The manifests and build recipes the provider may return.
AiManifests ==
    { <<"x">>, <<"app", "=", "x">>,
      <<"memory", "=", "1gb", "NL", "memory_mb", "=", "1024">>,
      <<"memory_mb", "=", "1024">> }
AiDockerfiles == {"null", "FROM node"}

NotFoundMessage == "Repository not found or private (check token)."
EmptyMessage == "Repository is empty."

InitAnalyze ==
    /\ anPc = "request"
    /\ anReq \in AnalyzeRequests
    /\ anRepo \in Repositories
    /\ anDir = NoDir
    /\ anCalls = <<>>
    /\ anErr = ""
    /\ anResult = [dockerfile |-> "null"]
    /\ anResponse = [code |-> 0]
    /\ DeployIdle
    /\ InstallerIdle
    /\ NormalizeIdle
    /\ TwoRunsIdle
    /\ ClientIdle
    /\ PolicyIdle
    /\ OutputIdle

\* healthController.js lines 35-46: validation, then the session's workDir.
AnValidate ==
    /\ anPc = "request"
    /\ IF ~isValidRepoUrl(anReq.repoUrl)
       THEN /\ anResponse' = [code |-> 400, error |-> "Invalid GitHub Repository URL"]
            /\ anPc' = "done"
            /\ anDir' = anDir
       ELSE IF anReq.appName # "" /\ ~isValidAppName(anReq.appName)
       THEN /\ anResponse' = [code |-> 400, error |-> "Invalid App Name."]
            /\ anPc' = "done"
            /\ anDir' = anDir
       ELSE /\ anResponse' = anResponse
            /\ anPc' = "fetch"
            /\ anDir' = {}
    /\ UNCHANGED <<pvars, lvars, dvars, ivars, nvars, tvars, cvars, anReq, anRepo, anCalls, anErr, anResult>>

\* git.js lines 8-18: the archive request.  analyzeRepo only logs a failed
\* download (healthController.js 51-55) and goes on.
DownloadFetch ==
    /\ anPc = "fetch"
    /\ anCalls' = Append(anCalls, "fetch archive")
    /\ IF ResponseOk(anRepo.status)
       THEN anErr' = anErr /\ anPc' = "extract"
       ELSE /\ anErr' = IF anRepo.status = 404 THEN NotFoundMessage
                        ELSE "Repo download failed: 500"
            /\ anPc' = "analyze"
    /\ UNCHANGED <<pvars, lvars, dvars, ivars, nvars, tvars, cvars, anReq, anRepo, anDir, anResult, anResponse>>

\* git.js lines 21-35: the archive is extracted into targetDir, its root
\* folder stripped; a broken stream fails with part of the tree extracted.
DownloadExtract ==
    /\ anPc = "extract"
    /\ \E ok \in BOOLEAN :
         IF ok
         THEN anDir' = anRepo.tree /\ anErr' = anErr /\ anPc' = "verify"
         ELSE /\ anDir' \in SUBSET anRepo.tree
              /\ anErr' = "TAR_BAD_ARCHIVE"
              /\ anPc' = "analyze"
    /\ UNCHANGED <<pvars, lvars, dvars, ivars, nvars, tvars, cvars, anReq, anRepo, anCalls, anResult, anResponse>>

\* The return of downloadRepo without the look at the extracted tree.
DownloadNoVerify ==
    /\ anPc = "verify"
    /\ anErr' = anErr
    /\ anPc' = "analyze"
    /\ UNCHANGED <<pvars, lvars, dvars, ivars, nvars, tvars, cvars, anReq, anRepo, anDir, anCalls, anResult, anResponse>>

\* git.js lines 37-41: an empty result is an error.
DownloadVerify ==
    /\ anPc = "verify"
    /\ anErr' = IF anDir = {} THEN EmptyMessage ELSE anErr
    /\ anPc' = "analyze"
    /\ UNCHANGED <<pvars, lvars, dvars, ivars, nvars, tvars, cvars, anReq, anRepo, anDir, anCalls, anResult, anResponse>>

\* healthController.js 58-62, stack-detector.js and proxy.js: the preset
\* strategy is chosen for a proxy repository and returns its fixed manifest.
ProxyAnalyze ==
    /\ anPc = "analyze"
    /\ detect(anReq.repoUrl)
    /\ anResult' = [fly_toml |-> ProxyManifest(anReq.appName), dockerfile |-> "FROM golang"]
    /\ anPc' = "post"
    /\ UNCHANGED <<pvars, lvars, dvars, ivars, nvars, tvars, cvars, anReq, anRepo, anDir, anCalls, anErr, anResponse>>

\* healthController.js 58-62 and ai.js 13-33: the fallback strategy is
\* chosen, reads its context and may settle for the existing configuration.
AiContext ==
    /\ anPc = "analyze"
    /\ ~detect(anReq.repoUrl)
    /\ IF anReq.preferExistingConfig /\ ContextIncludes(anDir, "fly.toml")
       THEN /\ anResult' = [fly_toml |-> <<"x">>, dockerfile |-> "null"]
            /\ anPc' = "post"
       ELSE /\ anResult' = anResult
            /\ anPc' = "provider"
    /\ UNCHANGED <<pvars, lvars, dvars, ivars, nvars, tvars, cvars, anReq, anRepo, anDir, anCalls, anErr, anResponse>>

\* ai.js 66-144: the provider is asked; its build recipe is dropped when
\* hasDockerfile.  healthController.js 95-98: a failure is answered with 500.
AiProvider ==
    /\ anPc = "provider"
    /\ anCalls' = Append(anCalls, "provider")
    /\ \E ok \in BOOLEAN :
         IF ok
         THEN /\ \E m \in AiManifests, d \in AiDockerfiles :
                   anResult' = [fly_toml |-> m,
                                dockerfile |-> IF hasDockerfile(anDir) THEN "null" ELSE d]
              /\ anPc' = "post"
              /\ anResponse' = anResponse
         ELSE /\ anResult' = anResult
              /\ anPc' = "done"
              /\ anResponse' = [code |-> 500, error |-> "AI Analysis Failed"]
    /\ UNCHANGED <<pvars, lvars, dvars, ivars, nvars, tvars, cvars, anReq, anRepo, anDir, anErr>>

\* healthController.js 64-93: post-processing and the response.
AnRespond ==
    /\ anPc = "post"
    /\ anResponse' = [code |-> 200,
                      fly_toml |-> PostProcess(anResult.fly_toml, anReq.appName),
                      dockerfile |-> anResult.dockerfile]
    /\ anPc' = "done"
    /\ UNCHANGED <<pvars, lvars, dvars, ivars, nvars, tvars, cvars, anReq, anRepo, anDir, anCalls, anErr, anResult>>

NextAnalyze ==
    \/ AnValidate \/ DownloadFetch \/ DownloadExtract \/ DownloadVerify
    \/ ProxyAnalyze \/ AiContext \/ AiProvider \/ AnRespond

SpecAnalyze == InitAnalyze /\ [][NextAnalyze]_vars

(***************************************************************************)
(* Two deploy runs in one server process: what deployApp does with the     *)
(* workspace directories (deployController.js 21-25, 43, 70-83, 257-260).  *)
(* The handler has no await between a request's arrival and line 47, and   *)
(* awaits between all later steps, so the runs interleave step by step.    *)
(***************************************************************************)
Runs == {1, 2}

\* req.body.sessionId of the two requests.
RunSessionIds == { <<"s1">>, <<"s2">>, <<>>, <<"..", "elsewhere">> }

\* Line 43: workDir of a run.
WorkDirOf(r) == PathJoin(TEMP_DIR, runSid[r])

\* The workspaces analyzeRepo may have left on disk.
SessionDirs == { PathJoin(TEMP_DIR, <<"s1">>), PathJoin(TEMP_DIR, <<"s2">>) }

InitTwoRuns ==
    /\ runPc = [r \in Runs |-> "request"]
    /\ runSid \in [Runs -> RunSessionIds]
    /\ \E present \in SUBSET SessionDirs : wsDirs = {TEMP_DIR} \cup present
    /\ DeployIdle
    /\ InstallerIdle
    /\ NormalizeIdle
    /\ AnalyzeIdle
    /\ ClientIdle
    /\ PolicyIdle
    /\ OutputIdle

\* Lines 28-68: validation, acquisition and credential check passed.
RunStart(r) ==
    /\ runPc[r] = "request"
    /\ runPc' = [runPc EXCEPT ![r] = "prepare"]
    /\ UNCHANGED <<pvars, lvars, dvars, ivars, nvars, avars, cvars, runSid, wsDirs>>

\* Lines 70-83: the workspace is reused, or created and filled.
RunPrepare(r) ==
    /\ runPc[r] = "prepare"
    /\ wsDirs' = wsDirs \cup {WorkDirOf(r)}
    /\ runPc' = [runPc EXCEPT ![r] = "building"]
    /\ UNCHANGED <<pvars, lvars, dvars, ivars, nvars, avars, cvars, runSid>>

\* Lines 85-251: files are written to the workspace and the subprocesses
\* run in it; the run ends with success, or with an error (for one, when
\* the directory is gone).
RunBuild(r) ==
    /\ runPc[r] = "building"
    /\ runPc' = [runPc EXCEPT ![r] = "cleanup"]
    /\ UNCHANGED <<pvars, lvars, dvars, ivars, nvars, avars, cvars, runSid, wsDirs>>

\* Lines 257-260 and 21-25: cleanup(workDir) removes the directory and all
\* below it when its path starts with TEMP_DIR.
RunCleanup(r) ==
    /\ runPc[r] = "cleanup"
    /\ wsDirs' = IF StartsWith(WorkDirOf(r), TEMP_DIR)
                 THEN {d \in wsDirs : ~StartsWith(d, WorkDirOf(r))}
                 ELSE wsDirs
    /\ runPc' = [runPc EXCEPT ![r] = "done"]
    /\ UNCHANGED <<pvars, lvars, dvars, ivars, nvars, avars, cvars, runSid>>

NextTwoRuns ==
    \E r \in Runs : RunStart(r) \/ RunPrepare(r) \/ RunBuild(r) \/ RunCleanup(r)

SpecTwoRuns == InitTwoRuns /\ [][NextTwoRuns]_vars

(***************************************************************************)
(* The client of the deploy stream: useDeployStore.deployApp               *)
(* (store/deployStore, lines 87-140).  The response body is the            *)
(* concatenation of the frames `data: <json>\n\n` the server wrote; it is  *)
(* text, modelled as a sequence of pieces of text: the prefix, the two     *)
(* halves of the JSON text of an event, and the two newlines.              *)
(***************************************************************************)
\* Events the server writes before the last one.
NonTerminalEvents ==
    { Event("info", <<"Registering app...">>),
      Event("log", <<"building", "image">>),
      Event("success", <<"Health check passed", "200">>) }

\* The last event of a run: the error event of the catch block, or the
\* success record.
TerminalEvents ==
    { Event("error", <<"Error:", "unauthorized">>),
      [type |-> "success", message |-> <<>>, appUrl |-> "app-1.fly.dev", appName |-> "app-1"] }

ClientStreams ==
    { nt \o <<t>> : nt \in UNION {[1..n -> NonTerminalEvents] : n \in 0..MaxStreamLen},
                    t \in TerminalEvents }

NL == [ev |-> 0, part |-> "\n"]

\* res.write(`data: ${JSON.stringify(...)}\n\n`) of the k-th event.
Frame(k) == << [ev |-> 0, part |-> "data: "], [ev |-> k, part |-> "json1"],
               [ev |-> k, part |-> "json2"], NL, NL >>

FrameLen == Len(Frame(1))

Wire(evs) == Flatten([k \in 1..Len(evs) |-> Frame(k)])

\* chunk.split('\n\n'), cur being the piece under construction.
RECURSIVE Split(_, _)
Split(text, cur) ==
    IF text = <<>> THEN <<cur>>
    ELSE IF Len(text) >= 2 /\ text[1] = NL /\ text[2] = NL
         THEN <<cur>> \o Split(Tail(Tail(text)), <<>>)
         ELSE Split(Tail(text), Append(cur, Head(text)))

\* line.trim()
RECURSIVE Trim(_)
Trim(text) ==
    IF text = <<>> THEN <<>>
    ELSE IF Head(text) = NL THEN Trim(Tail(text))
    ELSE IF text[Len(text)] = NL THEN Trim(SubSeq(text, 1, Len(text) - 1))
    ELSE text

\* Lines 116-118: the event a line carries, 0 when the line does not start
\* with the prefix or JSON.parse throws (the text of an object cut short).
ParseLine(line) ==
    LET t == Trim(line) IN
    IF /\ Len(t) = 3
       /\ t[1].part = "data: "
       /\ t[2].part = "json1"
       /\ t[3].part = "json2"
       /\ t[2].ev = t[3].ev
    THEN t[2].ev
    ELSE 0

\* The events parsed from a chunk, in order.
ParseChunk(chunk) ==
    LET lines == Split(chunk, <<>>) IN
    SelectSeq([i \in 1..Len(lines) |-> ParseLine(lines[i])], LAMBDA k : k # 0)

\* Lines 115-126: the loop over the parsed events of a chunk.
RECURSIVE Consume(_, _)
Consume(idxs, st) ==
    IF idxs = <<>> THEN st
    ELSE LET data == clStream[Head(idxs)] IN
         IF data.type = "success"
         THEN [st EXCEPT !.deployedUrl = data.appUrl, !.currentStep = "success",
                         !.returned = TRUE]
         ELSE Consume(Tail(idxs),
                      [st EXCEPT !.logs = Append(@, [message |-> data.message,
                                                     type |-> data.type])])

addLog(lg, message, type) == Append(lg, [message |-> message, type |-> type])

TunnelMessage == <<"Establishing secure tunnel to deployment engine...">>

InitClient ==
    /\ clPc = "idle"
    /\ clStream \in ClientStreams
    /\ clRest = <<>>
    /\ clTorn = FALSE
    /\ logs = <<>>
    /\ currentStep \in {"config", "error"}
    /\ deployedUrl = "null"
    /\ error = "null"
    /\ PolicyIdle
    /\ OutputIdle
    /\ DeployIdle
    /\ InstallerIdle
    /\ NormalizeIdle
    /\ AnalyzeIdle
    /\ TwoRunsIdle

\* Lines 87-109: the store is reset, the request is sent; a failed fetch
\* goes to the catch block (lines 136-139).
ClStart ==
    /\ clPc = "idle"
    /\ \E fetched \in BOOLEAN :
         LET started == addLog(<<>>, TunnelMessage, "info") IN
         IF fetched
         THEN /\ logs' = started
              /\ currentStep' = "deploying"
              /\ error' = "null"
              /\ clRest' = Wire(clStream)
              /\ clPc' = "reading"
         ELSE /\ logs' = addLog(started, <<"Critical Fail:", "Failed to fetch">>, "error")
              /\ currentStep' = "error"
              /\ error' = "Failed to fetch"
              /\ clRest' = clRest
              /\ clPc' = "done"
    /\ deployedUrl' = "null"
    /\ UNCHANGED <<pvars, lvars, dvars, ivars, nvars, avars, tvars, clStream, clTorn>>

\* Lines 111-133: reader.read() delivers the next chunk, any non-empty
\* prefix of what is left of the body, and the chunk is processed.
ClRead ==
    /\ clPc = "reading"
    /\ clRest # <<>>
    /\ \E n \in 1..Len(clRest) :
         LET chunk == SubSeq(clRest, 1, n)
             st == Consume(ParseChunk(chunk),
                           [logs |-> logs, currentStep |-> currentStep,
                            deployedUrl |-> deployedUrl, returned |-> FALSE])
         IN /\ clRest' = SubSeq(clRest, n + 1, Len(clRest))
            /\ clTorn' = (clTorn \/ (Len(clRest) - n) % FrameLen # 0)
            /\ logs' = st.logs
            /\ currentStep' = st.currentStep
            /\ deployedUrl' = st.deployedUrl
            /\ clPc' = IF st.returned THEN "done" ELSE "reading"
    /\ UNCHANGED <<pvars, lvars, dvars, ivars, nvars, avars, tvars, clStream, error>>

\* Lines 112-113: the body is at its end, the loop is left and deployApp returns.
ClEnd ==
    /\ clPc = "reading"
    /\ clRest = <<>>
    /\ clPc' = "done"
    /\ UNCHANGED <<pvars, lvars, dvars, ivars, nvars, avars, tvars, clStream, clRest, clTorn, logs,
                   currentStep, deployedUrl, error>>

NextClient == ClStart \/ ClRead \/ ClEnd

SpecClient == InitClient /\ [][NextClient]_vars

(***************************************************************************)
(* PolicyEngine.apply (lib/policy.js): the just-in-time fixes applied to   *)
(* targetDir before the build.  File contents are sequences of words.      *)
(***************************************************************************)

\* The entries fs.readdir(targetDir) may return, in the order it returns them.
PolicyNames == <<"Dockerfile", "config.yaml", "fly.toml", "rules.yml">>

\* What each file may hold when apply is called.
DockerfileContents ==
    { <<"FROM", "alpine", "NL", "COPY", ".", ".">>,
      <<"FROM", "alpine", "NL", "COPY", "config.yaml", "/etc/config.yaml">> }

YamlContents ==
    { <<"log_level:", "info">>,
      <<"upstream_dns:", "8.8.8.8">>,
      <<"upstream_dns:", "8.8.8.8:53">>,
      <<"upstream_dns:", "udp://9.9.9.9:53">> }

FlyTomlContents == { <<"app", "=", "x">> }

PolicyContents(name) ==
    CASE name = "Dockerfile" -> DockerfileContents
      [] name = "fly.toml"   -> FlyTomlContents
      [] OTHER               -> YamlContents

PolicyWorkspaces ==
    UNION { { f \in [S -> DockerfileContents \cup YamlContents \cup FlyTomlContents] :
                \A n \in S : f[n] \in PolicyContents(n) } :
            S \in SUBSET Range(PolicyNames) }

\* file.endsWith('.yaml') || file.endsWith('.yml')
IsYaml(file) == file \in {"config.yaml", "rules.yml"}

\* The raw addresses \d+\.\d+\.\d+\.\d+ with an optional port.
RawAddresses == {"8.8.8.8", "8.8.8.8:53"}

\* Line 21: the test for a raw IP after upstream_dns.
HasRawDns(content) ==
    \E i \in 1..(Len(content) - 1) :
        content[i] = "upstream_dns:" /\ content[i + 1] \in RawAddresses

\* Lines 23-26: content.replace(..., 'upstream_dns: "udp://$1"').
PatchDns(content) ==
    [i \in 1..Len(content) |->
        IF i > 1 /\ content[i - 1] = "upstream_dns:" /\ content[i] \in RawAddresses
        THEN IF content[i] = "8.8.8.8" THEN "udp://8.8.8.8" ELSE "udp://8.8.8.8:53"
        ELSE content[i]]

\* Line 37: dockerContent.includes('COPY config.yaml')
CopiesConfig(content) ==
    \E i \in 1..(Len(content) - 1) :
        content[i] = "COPY" /\ content[i + 1] = "config.yaml"

\* Lines 41-46: the default configuration.
emergencyConfig ==
    <<"general:", "upstream_dns:", "udp://1.1.1.1:53", "bind_http:", "0.0.0.0:80",
      "bind_https:", "0.0.0.0:443", "public_ipv4:", "127.0.0.1", "log_level:", "info">>

PolicyEvent(type, msg) == [type |-> type, message |-> msg]

PatchEvent(file) == PolicyEvent("info", <<"Policy: Patching DNS schema in", file>>)

HealEvent ==
    PolicyEvent("warning", <<"Policy: Missing config.yaml detected for Proxy app. Injecting default...">>)

\* Set file name of the workspace ws to content.
WriteFile(ws, name, content) ==
    [n \in DOMAIN ws \cup {name} |-> IF n = name THEN content ELSE ws[n]]

\* A healer that writes the default whenever the Dockerfile copies config.yaml.
NeedsConfigAlways(ws) ==
    "Dockerfile" \in DOMAIN ws /\ CopiesConfig(ws["Dockerfile"])

\* Lines 35-39: the Dockerfile exists, copies config.yaml, and config.yaml
\* does not exist.
NeedsConfig(ws) ==
    /\ "Dockerfile" \in DOMAIN ws
    /\ CopiesConfig(ws["Dockerfile"])
    /\ "config.yaml" \notin DOMAIN ws

InitPolicy ==
    /\ polPc = 1
    /\ polFiles \in PolicyWorkspaces
    /\ polFiles0 = polFiles
    /\ polEvents = <<>>
    /\ DeployIdle
    /\ InstallerIdle
    /\ NormalizeIdle
    /\ AnalyzeIdle
    /\ TwoRunsIdle
    /\ ClientIdle
    /\ OutputIdle

\* Lines 15-30: one iteration of the loop over the entries of targetDir.
PatchYaml ==
    /\ polPc \in 1..Len(PolicyNames)
    /\ LET file == PolicyNames[polPc] IN
         IF file \in DOMAIN polFiles0 /\ IsYaml(file) /\ HasRawDns(polFiles[file])
         THEN /\ polEvents' = Append(polEvents, PatchEvent(file))
              /\ polFiles' = WriteFile(polFiles, file, PatchDns(polFiles[file]))
         ELSE UNCHANGED <<polEvents, polFiles>>
    /\ polPc' = polPc + 1
    /\ UNCHANGED <<dvars, ivars, nvars, avars, tvars, cvars, lvars, polFiles0>>

\* Lines 34-50: the config healer.
HealConfig ==
    /\ polPc = Len(PolicyNames) + 1
    /\ IF NeedsConfig(polFiles)
       THEN /\ polEvents' = Append(polEvents, HealEvent)
            /\ polFiles' = WriteFile(polFiles, "config.yaml", emergencyConfig)
       ELSE UNCHANGED <<polEvents, polFiles>>
    /\ polPc' = polPc + 1
    /\ UNCHANGED <<dvars, ivars, nvars, avars, tvars, cvars, lvars, polFiles0>>

NextPolicy == PatchYaml \/ HealConfig

SpecPolicy == InitPolicy /\ [][NextPolicy]_vars

(***************************************************************************)
(* Forwarding of the deploy subprocess's output (deployController.js       *)
(* 214-215).  The text is a sequence of cells, "LF" being the newline; the *)
(* stream delivers it in 'data' events cut at arbitrary cells.             *)
(***************************************************************************)

\* The lines the subprocess may write: a line of two cells, a line of one
\* cell and the empty line.
OutputLines == { <<"Step", "1/2">>, <<"done">>, <<>> }

OutputTexts == UNION { [1..n -> OutputLines] : n \in 1..MaxTextLines }

\* The text on the stream: every line followed by a newline.
OutputWire(lines) == Flatten([i \in 1..Len(lines) |-> Append(lines[i], "LF")])

\* d.toString().split('\n'), cur being the piece under construction.
RECURSIVE SplitLines(_, _)
SplitLines(text, cur) ==
    IF text = <<>> THEN <<cur>>
    ELSE IF Head(text) = "LF"
         THEN <<cur>> \o SplitLines(Tail(text), <<>>)
         ELSE SplitLines(Tail(text), Append(cur, Head(text)))

\* .forEach(l => l.trim() && stream(l.trim(), 'log')): the events of one
\* 'data' event.
RECURSIVE LogEvents(_)
LogEvents(pieces) ==
    IF pieces = <<>> THEN <<>>
    ELSE IF Head(pieces) = <<>>
         THEN LogEvents(Tail(pieces))
         ELSE <<[type |-> "log", message |-> Head(pieces)]>> \o LogEvents(Tail(pieces))

InitOutput ==
    /\ outText \in OutputTexts
    /\ outRest = OutputWire(outText)
    /\ outEvents = <<>>
    /\ DeployIdle
    /\ InstallerIdle
    /\ NormalizeIdle
    /\ AnalyzeIdle
    /\ TwoRunsIdle
    /\ ClientIdle
    /\ PolicyIdle

\* One 'data' event of proc.stdout: the next k cells of the text.
OutData ==
    /\ outRest # <<>>
    /\ \E k \in 1..Len(outRest) :
         /\ outEvents' = outEvents \o LogEvents(SplitLines(SubSeq(outRest, 1, k), <<>>))
         /\ outRest' = SubSeq(outRest, k + 1, Len(outRest))
    /\ UNCHANGED <<dvars, ivars, nvars, avars, tvars, cvars, pvars, outText>>

NextOutput == OutData

SpecOutput == InitOutput /\ [][NextOutput]_vars

(***************************************************************************)
(* The two request handlers of the service side by side: a behaviour is    *)
(* one deploy request or one analyze request.                              *)
(***************************************************************************)
InitService == InitDeploy \/ InitAnalyze

NextService == NextDeploy \/ NextAnalyze

SpecService == InitService /\ [][NextService]_vars

(***************************************************************************)
(* Properties of the deploy run.                                           *)
(***************************************************************************)
Terminal(e) == e.type \in {"success", "error"}

\* The handler has finished: it returned, or its promise was rejected.
HandlerDone == pc \in {"returned", "rejected"}

LastEvent == events[Len(events)]

\* C1: in every deploy run exactly one terminal event (type success or error)
\* is emitted, no event is written after it, and on a successful run the
\* success event is the final one and carries the application URL and name.
C1_OneTerminalEventLast ==
    /\ \A i \in 1..(Len(events) - 1) : ~Terminal(events[i])
    /\ pc = "returned" => (Len(events) >= 1 /\ Terminal(LastEvent))
    /\ (pc = "returned" /\ Len(events) >= 1 /\ LastEvent.type = "success")
          => (LastEvent.appUrl # "" /\ LastEvent.appName # "")

\* C2: the response of every deploy request is ended once the handler is done
\* (a request rejected by validation included), and it is ended only after the
\* single terminal event has been written.
C2_ResponseEnded ==
    /\ HandlerDone => resEnded
    /\ resEnded => (Len(events) >= 1 /\ Terminal(LastEvent))

\* C3: after a deploy run has ended, with success or with an error raised at
\* any stage, the workspace directory of the session no longer exists.
C3_WorkspaceRemoved ==
    (pc = "returned" /\ resEnded) => workDirState = "absent"

\* The subprocesses of the stages that follow AppRegistration.
LaterStages == {"volumes list", "volumes create", "secrets set", "deploy", "status"}

\* `apps create` failed and its output has no taken/exists marker.
CreateFatal ==
    /\ createResult \notin {<<>>, <<"created">>}
    /\ ~Contains(createResult, "taken")
    /\ ~Contains(createResult, "exists")

\* C7: an `apps create` failure with the taken/exists marker does not abort
\* the run; any other `apps create` failure aborts it: no volume, secret or
\* deploy subprocess follows and the run ends with an error event.
C7_RegistrationFailureFatal ==
    /\ (Contains(createResult, "taken") /\ pc = "catch") => Contains(calls, "deploy")
    /\ CreateFatal => Range(calls) \cap LaterStages = {}
    /\ (CreateFatal /\ HandlerDone) => LastEvent.type = "error"

\* C8: no value of the secret map appears verbatim in the message of any event.
C8_NoSecretValueInEvents ==
    \A i \in 1..Len(events) : \A v \in SecretValues : ~Contains(events[i].message, v)

\* C9: neither the caller's platform token nor the source-hosting token appears
\* in the message of any event.
C9_NoTokenInEvents ==
    \A i \in 1..Len(events) :
        /\ ~Contains(events[i].message, req.flyToken)
        /\ ~Contains(events[i].message, req.githubToken)

(***************************************************************************)
(* Properties of the installer.                                            *)
(***************************************************************************)
\* The installations whose promise is not settled yet.
InFlight == {a \in Attempts : attempt[a].step \notin {"unused", "resolved", "rejected"}}

\* C4: at most one performAntifragileInstallation is in flight at a time;
\* the callers that wait while it runs all wait for that one installation,
\* and the callers of one installation receive the same path.
C4_SingleInstallation ==
    /\ Cardinality(InFlight) <= 1
    /\ \A c \in Callers :
         (caller[c].st = "waiting" /\ caller[c].awaiting \in InFlight)
            => caller[c].awaiting = installationPromise
    /\ \A c1, c2 \in Callers :
         (caller[c1].st = "done" /\ caller[c2].st = "done"
          /\ caller[c1].awaiting # 0 /\ caller[c1].awaiting = caller[c2].awaiting)
            => caller[c1].result = caller[c2].result

\* Two first calls shared one installation and both received its path.
C4_TwoCallersShared ==
    /\ nAttempts = 1
    /\ \E c1, c2 \in Callers :
         /\ c1 # c2
         /\ caller[c1] = [st |-> "done", awaiting |-> 1, result |-> FLY_BIN]
         /\ caller[c2] = caller[c1]

NetworkOps(a) == {i \in 1..Len(attempt[a].ops) : attempt[a].ops[i][1] \in {"sh", "fetch", "download"}}

\* C6: with a verifiable candidate at the highest-priority location (flyctl
\* on the system PATH runs and reports its version), an acquisition runs no
\* install script, no release-metadata query and no download.
C6_CandidateShortCircuits ==
    \A a \in Attempts : PATH_FLYCTL \in runnable => NetworkOps(a) = {}

(***************************************************************************)
(* Properties of the manifest post-processing.                             *)
(***************************************************************************)
\* C10: the post-processing of analyzeRepo is idempotent: the manifest after
\* two passes is the manifest after one pass, for every manifest and name.
C10_Idempotent ==
    passes >= 2 => manifest = PostProcess(manifestIn, normName)

\* A manifest with an app line went through two passes and was rewritten.
C10_RewrittenTwice ==
    /\ passes >= 2
    /\ normName # ""
    /\ FirstAppLine(manifestIn) # 0
    /\ manifest # manifestIn

\* The positions at which an application-identifier line starts.
AppLines(m) == {i \in 1..Len(m) : AppLineAt(m, i)}

\* The application-identifier line that starts at position i.
AppLineText(m, i) == SubSeq(m, i, LineEnd(m, i) - 1)

\* C11: after a pass with a desired app name a non-empty manifest has exactly
\* one application-identifier line, and that line names the desired app.
C11_ExactlyOneAppLine ==
    (passes >= 1 /\ normName # "" /\ manifestIn # <<>>)
        => /\ Cardinality(AppLines(manifest)) = 1
           /\ \A i \in AppLines(manifest) : AppLineText(manifest, i) = AppLine(normName)

(***************************************************************************)
(* Properties of the stages of the deploy run.                             *)
(***************************************************************************)
\* The deploy subprocess exited non-zero: `await proc` threw (line 217).
DeployFailed ==
    /\ Contains(calls, "deploy")
    /\ ~Contains(calls, "status")
    /\ thrown # <<>>

ErrorEvents == {i \in 1..Len(events) : events[i].type = "error"}

\* C13: when the deploy subprocess exits non-zero there is no status query
\* and no health probe, the run ends with exactly one error event, the last
\* one, carrying the failure message, and the workspace directory is gone.
C13_DeployFailureFatal ==
    DeployFailed =>
        /\ ~Contains(calls, "probe")
        /\ pc = "returned" =>
             /\ ErrorEvents = {Len(events)}
             /\ LastEvent.message = <<"Error:">> \o sanitizeLog(thrown)
             /\ workDirState = "absent"

\* The position of a control point in the run, and the stage it belongs to.
PcRank(p) ==
    CASE p = "request" -> 0 [] p = "getFlyExe" -> 1 [] p = "preflight" -> 2
      [] p = "workspace" -> 3 [] p = "writeConfig" -> 4 [] p = "policy" -> 5
      [] p = "register" -> 6 [] p = "volumes" -> 7 [] p = "secrets" -> 8
      [] p = "deploy" -> 9 [] p = "deploying" -> 10 [] p = "status" -> 11
      [] p = "health" -> 12 [] p = "success" -> 13 [] p = "catch" -> 13
      [] p = "finally" -> 14 [] OTHER -> 15

Stage(p) ==
    CASE p = "request" -> 0 [] p = "getFlyExe" -> 1 [] p = "preflight" -> 2
      [] p = "workspace" -> 3 [] p = "writeConfig" -> 4 [] p = "policy" -> 5
      [] p = "register" -> 6 [] p = "volumes" -> 7 [] p = "secrets" -> 8
      [] p \in {"deploy", "deploying"} -> 9
      [] p \in {"status", "health"} -> 10
      [] OTHER -> 11

\* C18: the run moves forward only: a step stays in its stage, enters the
\* next stage, or goes to the error terminal; no stage is entered again.
C18_LinearStages ==
    [][pc' # pc =>
         /\ PcRank(pc') > PcRank(pc)
         /\ \/ Stage(pc') \in {Stage(pc), Stage(pc) + 1}
            \/ pc' = "catch"
            \/ pc = "request" /\ pc' \in {"returned", "rejected"}]_vars

\* A run went through every stage, probes included, to the success record.
C18_FullRun ==
    /\ pc = "returned"
    /\ LastEvent.type = "success"
    /\ Contains(calls, "probe")
    /\ Contains(calls, "secrets set")
    /\ Contains(calls, "volumes create")

\* The credential check failed (line 67).
CredentialFailed == thrown = <<"Invalid Fly.io Token or Permissions.">>

\* C19: when the credential check fails no source is fetched, no workspace
\* file is written, no other subprocess runs, and the run ends with the
\* credential error as its terminal event.
C19_CredentialFailureAborts ==
    CredentialFailed =>
        /\ calls = <<"orgs list">>
        /\ \A i \in 1..Len(events) :
             events[i].message \notin {<<"Downloading source...">>, <<"Writing config...">>}
        /\ pc \in {"catch", "finally", "returned"}
        /\ pc = "returned" =>
             /\ ErrorEvents = {Len(events)}
             /\ LastEvent.message = <<"Error:">> \o thrown

\* A run ended on the credential error.
C19_AbortedOnCredentials ==
    CredentialFailed /\ pc = "returned" /\ resEnded

\* The events of the health loop, and the answers the contract accepts as
\* healthy: a status of 200-399, 404 or 403.
ProbeEvents ==
    {i \in 1..Len(events) :
        /\ Len(events[i].message) >= 1
        /\ events[i].message[1] \in {"Health check passed", "Health check pending",
                                     "Waiting for DNS propagation..."}}

AcceptableAnswer(e) ==
    /\ Len(e.message) = 2
    /\ e.message[2] \in {"200", "404", "403"}

\* C20: at most five probes; an acceptable answer counts as healthy and no
\* probe follows it.
C20_HealthyStopsProbing ==
    /\ probes <= 5
    /\ \A i \in ProbeEvents :
         AcceptableAnswer(events[i]) =>
            /\ healthy
            /\ \A j \in ProbeEvents : j <= i

(***************************************************************************)
(* Properties of analyzeRepo, downloadRepo and AIStrategy.                 *)
(***************************************************************************)
\* downloadRepo was called and has returned or thrown.
Downloaded ==
    /\ Contains(anCalls, "fetch archive")
    /\ anPc \in {"analyze", "provider", "post", "done"}

\* C14: a 404 fails with the not-found error and any other non-2xx status
\* with the download-failed error, the target directory still empty; a
\* download that succeeded left at least one entry, an empty extraction
\* result being the empty-repository error.
C14_DownloadOutcomes ==
    Downloaded =>
        /\ anRepo.status = 404 => (anErr = NotFoundMessage /\ anDir = {})
        /\ (~ResponseOk(anRepo.status) /\ anRepo.status # 404)
              => (anErr = "Repo download failed: 500" /\ anDir = {})
        /\ anErr = "" => anDir # {}
        /\ (ResponseOk(anRepo.status) /\ anDir = {} /\ anErr # "TAR_BAD_ARCHIVE")
              => anErr = EmptyMessage

\* A download was answered 404 and failed with the not-found error.
C14_NotFound ==
    Downloaded /\ anRepo.status = 404 /\ anErr = NotFoundMessage /\ anDir = {}

\* C15: when the fetched tree holds a Dockerfile the build recipe of the
\* analyze response is null.
C15_NoRecipeWhenDockerfile ==
    (anPc = "done" /\ anResponse.code = 200 /\ "Dockerfile" \in anDir)
        => anResponse.dockerfile = "null"

\* C16: a deploy or analyze request whose URL is not a URL of the code
\* host, or whose app name has a character other than a lowercase letter, a
\* digit or a hyphen, is answered with an error at once: no workspace
\* directory is created, no fetch and no subprocess is started, and the
\* handler does nothing after the answer.
C16_RejectedBeforeWork ==
    [][/\ (pc = "request" /\ (req.repoUrl.host # "github.com" \/ req.appName = "App_1"))
            => /\ pc' = "returned"
               /\ Len(events') = 1 /\ events'[1].type = "error"
               /\ calls' = <<>>
               /\ workDirState' = workDirState
       /\ (anPc = "request" /\ (anReq.repoUrl.host # "github.com" \/ anReq.appName = "App_1"))
            => /\ anPc' = "done"
               /\ anResponse'.code = 400
               /\ anDir' = NoDir
               /\ anCalls' = <<>>
       /\ pc = "returned" => UNCHANGED dvars
       /\ anPc = "done" => UNCHANGED avars]_vars

\* A deploy request with a bad app name was answered with the error event.
C16_RejectedDeploy ==
    /\ pc = "returned"
    /\ req.appName = "App_1"
    /\ calls = <<>>
    /\ Len(events) = 1
    /\ events[1].message = <<"Invalid App Name">>

\* C12: when the deploy subprocess is invoked, fly.toml of the workspace has
\* been written and holds no `auto_stop_machines = true` and no
\* `min_machines_running = 0`: every such assignment of the manifest was
\* rewritten before.
C12_RewrittenBeforeDeploy ==
    Contains(calls, "deploy") =>
        /\ flyTomlFile # NoFile
        /\ ~HasMatch(flyTomlFile, "auto_stop_machines", "true")
        /\ ~HasMatch(flyTomlFile, "min_machines_running", "0")

(***************************************************************************)
(* Properties of concurrent deploy runs.                                   *)
(***************************************************************************)
\* The run has prepared its workspace and has not cleaned up yet.
UsesWorkspace(r) == runPc[r] \in {"building", "cleanup"}

\* One of two directories is the other or lies in it.
SameTree(d1, d2) == StartsWith(d1, d2) \/ StartsWith(d2, d1)

\* C17: two runs in progress never work in the same directory tree, and the
\* directory of a run that is building exists (no other run has removed it).
C17_ExclusiveWorkspace ==
    \A r1, r2 \in Runs :
        (r1 # r2 /\ UsesWorkspace(r1) /\ UsesWorkspace(r2))
            => /\ ~SameTree(WorkDirOf(r1), WorkDirOf(r2))
               /\ runPc[r1] = "building" => WorkDirOf(r1) \in wsDirs

(***************************************************************************)
(* Properties of the advisory steps of the deploy run.                     *)
(***************************************************************************)
\* All probes of the health loop were made and none was healthy.
ProbesExhausted == probes = MaxProbes /\ ~healthy

\* C21: once the health loop ran out without a healthy answer, the run ends
\* with a warning event followed by the success record, and no error event.
C21_ExhaustionIsWarning ==
    (ProbesExhausted /\ pc \in {"finally", "returned"})
        => /\ LastEvent.type = "success"
           /\ events[Len(events) - 1].type = "warning"
           /\ ErrorEvents = {}

C21_ExhaustedRun == pc = "returned" /\ ProbesExhausted /\ resEnded

\* The provisioning calls of the run that failed.
ProvisioningCalls == {"volumes list", "volumes create", "secrets set"}

FailedProvisioning ==
    {calls[i] : i \in {j \in 1..(Len(calls) - 1) :
                          calls[j] \in ProvisioningCalls /\ calls[j + 1] = Failed}}

\* The warning events about provisioning.
ProvisioningWarnings ==
    {i \in 1..Len(events) :
        /\ events[i].type = "warning"
        /\ events[i].message[1] \in {"Failed to create volume:", "Failed to set secrets:",
                                     "Volume detection failed:"}}

\* C22: every provisioning call that failed is reported by a warning event of
\* its own, the run goes on to the deploy, and no error event is due to it.
C22_ProvisioningFailureWarned ==
    /\ Cardinality(ProvisioningWarnings) >= Cardinality(FailedProvisioning)
    /\ (FailedProvisioning # {} /\ pc = "catch") => "deploy" \in Range(calls)

(***************************************************************************)
(* Properties of the client of the deploy stream.                          *)
(***************************************************************************)
\* deployApp of the store has returned after reading the response.
ClientDone == clPc = "done" /\ error = "null"

TerminalOf(evs) == evs[Len(evs)]

\* The events the server wrote before the terminal success record, as log entries.
RECURSIVE LogEntries(_)
LogEntries(evs) ==
    IF evs = <<>> THEN <<>>
    ELSE IF Head(evs).type = "success" /\ Head(evs).appUrl # ""
         THEN LogEntries(Tail(evs))
         ELSE <<[message |-> Head(evs).message, type |-> Head(evs).type]>>
              \o LogEntries(Tail(evs))

\* C23: after a stream that ended with an error event the run is marked
\* failed and the message is in the log; after one that ended with the
\* success record the step is success and the URL is the one returned.
C23_TerminalEventShown ==
    (ClientDone /\ ~clTorn)
        => IF TerminalOf(clStream).type = "error"
           THEN /\ currentStep = "error"
                /\ \E i \in 1..Len(logs) : logs[i].message = TerminalOf(clStream).message
           ELSE /\ currentStep = "success"
                /\ deployedUrl = TerminalOf(clStream).appUrl

\* C24: when the client has read the whole response, however it was cut
\* into chunks, its log is the tunnel message followed by all events the
\* server wrote before the success record, in order.
C24_LogIsTheStream ==
    ClientDone => Tail(logs) = LogEntries(clStream)

(***************************************************************************)
(* Properties of one acquisition (performAntifragileInstallation).         *)
(***************************************************************************)
\* Operation i is the verification that follows an install script or a
\* download; every other operation is a step of the acquisition.
IsPostVerify(ops, i) ==
    ops[i][1] = "verify" /\ i > 1 /\ ops[i - 1][1] \in {"sh", "download"}

\* The place of a step in the priority order.
StepRank(op) ==
    CASE op = <<"verify", PATH_FLYCTL>> -> 1
      [] op = <<"verify", FLY_BIN>> -> 2
      [] op = <<"verify", HOME_FLY>> -> 3
      [] op = <<"sh", "curl">> -> 4
      [] op = <<"sh", "wget">> -> 5
      [] op = <<"fetch", "releases/latest">> -> 6
      [] op = <<"download", "0.4.12">> -> 7
      [] op = <<"download", "0.4.11">> -> 8
      [] op = <<"download", "0.2.22">> -> 9
      [] OTHER -> 0

\* The place of operation i: a step at twice its rank, the verification
\* that belongs to a step right after it.
OpRank(ops, i) ==
    IF IsPostVerify(ops, i) THEN 2 * StepRank(ops[i - 1]) + 1 ELSE 2 * StepRank(ops[i])

\* The steps of an acquisition that found no binary anywhere.
AllSteps(a) ==
    {<<"verify", PATH_FLYCTL>>, <<"verify", FLY_BIN>>, <<"fetch", "releases/latest">>,
     <<"download", "0.4.11">>, <<"download", "0.2.22">>}
    \cup (IF config.IS_VERCEL THEN {} ELSE {<<"verify", HOME_FLY>>})
    \cup (IF config.IS_WINDOWS THEN {} ELSE {<<"sh", "curl">>, <<"sh", "wget">>})

\* C25: the steps of an acquisition follow the priority order (candidates,
\* curl script, wget script, metadata query, downloads of the latest release
\* and of the pinned versions, each version once); an acquisition that returned
\* a path ends with the verification of that path and takes no further step;
\* one that failed has taken every step.
C25_FixedPriorityOrder ==
    /\ [](\A a \in Attempts :
            LET ops == attempt[a].ops IN
            /\ \A i \in 1..Len(ops) :
                 /\ 0 < OpRank(ops, i)
                 /\ i > 1 => OpRank(ops, i - 1) < OpRank(ops, i)
            /\ attempt[a].step = "returned" => ops[Len(ops)] = <<"verify", attempt[a].value>>
            /\ attempt[a].step = "threw" => AllSteps(a) \subseteq Range(ops))
    /\ [][\A a \in Attempts :
            attempt[a].step = "returned" =>
                \/ attempt'[a] = attempt[a]
                \/ attempt'[a].step = "resolved"]_vars

\* An acquisition went through every step and its last download verified.
C25_LastVersionInstalled ==
    \E a \in Attempts :
        /\ attempt[a].step = "returned"
        /\ <<"sh", "wget">> \in Range(attempt[a].ops)
        /\ <<"download", "0.4.12">> \in Range(attempt[a].ops)
        /\ <<"download", "0.2.22">> \in Range(attempt[a].ops)

\* The install scripts an acquisition has run.
ShellOps(a) == {i \in 1..Len(attempt[a].ops) : attempt[a].ops[i][1] = "sh"}

\* C26: on a restricted environment (IS_VERCEL) no acquisition runs the curl
\* or the wget install script.
C26_NoShellOnVercel ==
    config.IS_VERCEL => \A a \in Attempts : ShellOps(a) = {}

\* The paths the settled acquisitions resolved with.
ResolvedPaths == {attempt[a].value : a \in {b \in Attempts : attempt[b].step = "resolved"}}

InstallFailure == "Installation failed."

\* C28: when an acquisition has failed, its settling records the error,
\* leaves the cache as it was and clears the in-flight guard; every caller
\* that awaited it receives the error; the cache is set only when some
\* acquisition resolved; and the next getFlyExe call that misses the cache
\* starts a new acquisition from its first step.
C28_FailureIsNotSticky ==
    /\ [][\A a \in Attempts :
            (attempt[a].step = "threw" /\ attempt'[a].step = "rejected")
               => /\ flyBinPath' = flyBinPath
                  /\ installationPromise' = 0
                  /\ lastInstallError' = InstallFailure]_vars
    /\ [](\A c \in Callers :
            (caller[c].st = "done" /\ caller[c].awaiting # 0
             /\ attempt[caller[c].awaiting].step = "rejected")
               => caller[c].result = InstallFailure)
    /\ [](flyBinPath # "" => \E a \in Attempts : attempt[a].step = "resolved")
    /\ [][\A c \in Callers :
            (caller'[c] # caller[c] /\ caller[c].st = "done"
             /\ caller[c].result = InstallFailure /\ installationPromise = 0
             /\ ~(flyBinPath # "" /\ flyBinPath \in disk))
               => /\ nAttempts' = nAttempts + 1
                  /\ installationPromise' = nAttempts'
                  /\ caller'[c] = [st |-> "waiting", awaiting |-> nAttempts', result |-> ""]
                  /\ attempt'[nAttempts'] = NewAttempt]_vars

\* Two callers received the error of the first acquisition and one of them
\* has called again and waits for the second acquisition.
C28_RetriedAfterFailure ==
    /\ flyBinPath = ""
    /\ attempt[1].step = "rejected"
    /\ \E c1, c2 \in Callers :
         /\ c1 # c2
         /\ caller[c1] = [st |-> "done", awaiting |-> 1, result |-> InstallFailure]
         /\ caller[c2] = [st |-> "waiting", awaiting |-> 2, result |-> ""]

(***************************************************************************)
(* Properties of the context of AIStrategy.analyze.                        *)
(***************************************************************************)
\* AIStrategy.analyze has built its context.
ContextBuilt == anPc \in {"provider", "post"} \/ (anPc = "done" /\ anResponse.code \in {200, 500})

\* C29: when the request prefers the existing configuration and the tree
\* holds a fly.toml, the provider is never called, whatever the sizes of
\* the files.
C29_ExistingConfigNoProvider ==
    (anReq.preferExistingConfig /\ "fly.toml" \in anDir)
        => "provider" \notin Range(anCalls)

\* The character budget of the context.
Budget == SliceStart

\* C30: the context is never longer than the budget, and when the parts of
\* the files read fit into the budget the context is all of them.
C30_ContextWithinBudget ==
    ContextBuilt
        => /\ ContextLength(anDir) <= Budget
           /\ ContextTotal(anDir) <= Budget => ContextLength(anDir) = ContextTotal(anDir)

(***************************************************************************)
(* Properties of the composed manifest.                                    *)
(***************************************************************************)
\* The manifest has a line that sets key.
Declares(m, key) == \E i \in 1..Len(m) : KeyLineAt(m, i, key)

\* A strategy composed the manifest of the answer (it is not the note that
\* the existing configuration will be used).
Composed == detect(anReq.repoUrl) \/ "provider" \in Range(anCalls)

\* C31: the manifest of every successful analysis that a strategy composed
\* declares both memory and memory_mb.
C31_BothMemoryForms ==
    (anResponse.code = 200 /\ Composed)
        => /\ Declares(anResponse.fly_toml, "memory")
           /\ Declares(anResponse.fly_toml, "memory_mb")

(***************************************************************************)
(* Properties of ManifestWriting and ResourceProvisioning.                 *)
(***************************************************************************)
\* C32: every auxiliary file of the request was written to a path below the
\* workspace directory of the session.
C32_FilesInsideWorkspace ==
    \A p \in auxPaths : StartsWith(p, WorkDir) /\ p # WorkDir

\* The manifest declared a mount source (line 157 announces it).
MountDetected ==
    \E i \in 1..Len(events) : events[i].message[1] = "Detected Volume Request:"

\* C33: every `volumes create` of the run directly follows a `volumes list`
\* that answered (and did not show the volume), in a run whose manifest
\* declares a mount source.
C33_CreateOnlyIfAbsent ==
    \A i \in 1..Len(calls) :
        calls[i] = "volumes create"
            => /\ MountDetected
               /\ i > 1
               /\ calls[i - 1] = "volumes list"

\* apply has returned.
PolicyDone == polPc = Len(PolicyNames) + 2

\* C34: after PolicyEngine.apply, a Dockerfile that references
\* 'COPY config.yaml' has a config.yaml next to it; the default is written
\* only where config.yaml was missing, the warning is streamed exactly when
\* the default is written, and fly.toml and the Dockerfile are as they were.
C34_ConfigHealed ==
    PolicyDone =>
        LET synthesized == /\ "config.yaml" \in DOMAIN polFiles
                           /\ polFiles["config.yaml"] = emergencyConfig
        IN  /\ ("Dockerfile" \in DOMAIN polFiles /\ CopiesConfig(polFiles["Dockerfile"]))
                   => "config.yaml" \in DOMAIN polFiles
            /\ synthesized => "config.yaml" \notin DOMAIN polFiles0
            /\ "config.yaml" \in DOMAIN polFiles0
                   => polFiles["config.yaml"] \in {polFiles0["config.yaml"], PatchDns(polFiles0["config.yaml"])}
            /\ (\E i \in 1..Len(polEvents) : polEvents[i] = HealEvent) <=> synthesized
            /\ \A n \in {"fly.toml", "Dockerfile"} :
                   /\ n \in DOMAIN polFiles <=> n \in DOMAIN polFiles0
                   /\ n \in DOMAIN polFiles0 => polFiles[n] = polFiles0[n]

\* apply returned after writing the default configuration.
C34_DefaultInjected ==
    /\ PolicyDone
    /\ "config.yaml" \notin DOMAIN polFiles0
    /\ "config.yaml" \in DOMAIN polFiles
    /\ polFiles["config.yaml"] = emergencyConfig
    /\ polEvents = <<HealEvent>>


\* The non-empty lines of a text, in order.
NonEmptyLines(lines) == SelectSeq(lines, LAMBDA l : l # <<>>)

\* C35: however the subprocess's output is cut into chunks, once all of it
\* has been delivered the 'log' events are the non-empty lines that were
\* written, one event per line, in the order written.
C35_OneEventPerLine ==
    (outText # <<>> /\ outRest = <<>>) =>
        /\ Len(outEvents) = Len(NonEmptyLines(outText))
        /\ \A i \in 1..Len(outEvents) :
               outEvents[i] = [type |-> "log", message |-> NonEmptyLines(outText)[i]]


\* C36: the source is fetched only when the session's workspace is missing
\* or empty, and the run's build root (where fly.toml is written and the
\* build subprocess runs) is the workspace root that downloadRepo returned,
\* also for a workspace an earlier analysis fetched.
C36_BuildRootIsWorkspaceRoot ==
    /\ [](targetDir = "workDir")
    /\ [][(pc = "workspace" /\ calls' # calls) => workDirState \in {"absent", "empty"}]_vars


\* C37: a client in step 'success' shows the URL of the server's final
\* success record: the stream ended with that record and deployedUrl is its
\* appUrl, which is set.
C37_SuccessCarriesUrl ==
    currentStep = "success" =>
        /\ TerminalOf(clStream).type = "success"
        /\ deployedUrl = TerminalOf(clStream).appUrl
        /\ deployedUrl \notin {"null", ""}

\* C38: when deployApp of the store has finished with the response, the
\* step is no longer 'deploying'.
C38_NotDeployingAtEnd ==
    clPc = "done" => currentStep \in {"success", "error"}


\* C39: when analyzeRepo has answered with status 500, the workspace
\* directory it created for the session is gone.
C39_FailedAnalysisLeavesNothing ==
    (anPc = "done" /\ anResponse.code = 500) => anDir = NoDir


====
